---- MODULE Spec2Model ----
(***************************************************************************)
(* King-of-the-Hill (KOTH) game engine and two-player session server of    *)
(* orbit_defender2d.  The engine (koth.py, orbit_grid.py,                  *)
(* engagement_graph.py) is modelled as pure operators over a game record;  *)
(* the server (game_server.py, TwoPlayerGameServer) is the state machine:  *)
(* one action per request context, each action being the whole of          *)
(* process_request for one request message.                                *)
(***************************************************************************)
EXTENDS Integers, Sequences, FiniteSets, TLC

(***************************************************************************)
(* Names of utils.py                                                       *)
(***************************************************************************)
P1 == "alpha"
P2 == "beta"
player_names == {P1, P2}
MOVEMENT == "movement"
ENGAGEMENT == "engagement"
DRIFT == "drift"
TURN_PHASE_LIST == {MOVEMENT, ENGAGEMENT, DRIFT}
SEEKER == "HVA"
BLUDGER == "Patrol"
NOOP == "noop"
PROGRADE == "prograde"
RETROGRADE == "retrograde"
RADIAL_IN == "radial_in"
RADIAL_OUT == "radial_out"
MOVEMENT_TYPES == {NOOP, PROGRADE, RETROGRADE, RADIAL_IN, RADIAL_OUT}
SHOOT == "shoot"
COLLIDE == "collide"
GUARD == "guard"
ENGAGEMENT_TYPES == {SHOOT, COLLIDE, GUARD}
IN_SEC == "in_sector"
ADJ_SEC == "adjacent_sector"

\* Python's None: where a sector number is expected, and where a dictionary,
\* a list or a name is expected
NoSector == -1
None == [none |-> TRUE]

(***************************************************************************)
(* The game configuration (arguments of KOTHGame.__init__): a small board  *)
(* with one Seeker and one Bludger per player.  Fuel and probabilities are *)
(* integers: fuel in whole units, probabilities in thousandths.            *)
(***************************************************************************)
max_ring == 2
min_ring == 1
geo_ring == 2
init_fuel == 4
init_ammo_bludger == 1
init_ammo_seeker == 0
min_fuel == 0
illegal_action_score == -1000
in_goal_points == 10
adj_goal_points == 3
win_score == 40
max_turns == 1
\* fuel_points_factor (Seeker) and fuel_points_factor_bludger, in tenths
fuel_points_factor == 10
fuel_points_factor_bludger == 1
FactorDen == 10
ProbDen == 1000

\* init_board_pattern_p1 / _p2: <<relative azimuth, number of bludgers>>
init_board_pattern_p1 == << <<0, 1>> >>
init_board_pattern_p2 == << <<0, 1>> >>

fuel_usage(kind) ==
  CASE kind = NOOP -> 0
    [] kind = DRIFT -> 1
    [] kind = PROGRADE -> 1
    [] kind = RETROGRADE -> 1
    [] kind = RADIAL_IN -> 2
    [] kind = RADIAL_OUT -> 2

fuel_usage_engage(sec, kind) ==
  CASE sec = IN_SEC /\ kind = SHOOT -> 2
    [] sec = IN_SEC /\ kind = COLLIDE -> 2
    [] sec = IN_SEC /\ kind = GUARD -> 1
    [] sec = ADJ_SEC /\ kind = SHOOT -> 2
    [] sec = ADJ_SEC /\ kind = COLLIDE -> 4
    [] sec = ADJ_SEC /\ kind = GUARD -> 2

engage_probs(sec, kind) ==
  CASE kind = NOOP -> 1000
    [] sec = IN_SEC -> 800
    [] sec = ADJ_SEC -> 400

(***************************************************************************)
(* orbit_grid.py: OrbitGrid(n_rings = max_ring)                            *)
(***************************************************************************)
n_rings == max_ring

RECURSIVE Pow2(_)
Pow2(n) == IF n = 0 THEN 1 ELSE 2 * Pow2(n - 1)

n_sectors == Pow2(n_rings + 1) - 1

RECURSIVE bit_length(_)
bit_length(n) == IF n = 0 THEN 0 ELSE 1 + bit_length(n \div 2)

RECURSIVE int2bitlist(_)
int2bitlist(n) ==
  IF n < 2 THEN <<n>> ELSE Append(int2bitlist(n \div 2), n % 2)

RECURSIVE bitlist2int(_)
bitlist2int(b) ==
  IF Len(b) = 0 THEN 0
  ELSE 2 * bitlist2int(SubSeq(b, 1, Len(b) - 1)) + b[Len(b)]

sector_num2ring(sec_num) == bit_length(sec_num + 1) - 1

sector_num2coord(sec_num) ==
  LET ring == sector_num2ring(sec_num)
  IN  <<ring, sec_num - Pow2(ring) + 1>>

sector_coord2num(ring, azim) == Pow2(ring) + azim - 1

get_num_sectors_in_ring(ring) == Pow2(ring)

get_relative_azimuth_sector(sec_num, rel_azim) ==
  LET c == sector_num2coord(sec_num)
      n_sec_in_ring == get_num_sectors_in_ring(c[1])
  IN  sector_coord2num(c[1], (c[2] + rel_azim) % n_sec_in_ring)

get_prograde_sector(sec_num) == get_relative_azimuth_sector(sec_num, 1)

\* the retrograde sector taken as the previous sector number, across rings
get_retrograde_sector_unwrapped(sec_num) == sec_num - 1

get_retrograde_sector(sec_num) == get_relative_azimuth_sector(sec_num, -1)

\* OrbitGrid(n_rings): the grid object, rings 0..n_rings
OrbitGrid(n) == [n_rings |-> n, n_sectors |-> Pow2(n + 1) - 1]

\* KOTHGame.board_grid
board_grid == OrbitGrid(max_ring)

\* get_radial_out_sector of the grid og
grid_get_radial_out_sector(og, sec_num) ==
  LET c == sector_num2coord(sec_num)
  IN  IF c[1] >= og.n_rings THEN NoSector
      ELSE sector_coord2num(c[1] + 1, bitlist2int(Append(int2bitlist(c[2]), 0)))

get_radial_out_sector(sec_num) == grid_get_radial_out_sector(board_grid, sec_num)

\* the inner azimuth keeps the low bits of the azimuth instead of the high ones
get_radial_in_sector_low_bits(sec_num) ==
  LET c == sector_num2coord(sec_num)
  IN  IF c[1] < 1 THEN NoSector
      ELSE sector_coord2num(c[1] - 1, c[2] % get_num_sectors_in_ring(c[1] - 1))

get_radial_in_sector(sec_num) ==
  LET c == sector_num2coord(sec_num)
      bits == int2bitlist(c[2])
      in_azim_bits == IF Len(bits) <= 1 THEN <<0>> ELSE SubSeq(bits, 1, Len(bits) - 1)
  IN  IF c[1] < 1 THEN NoSector
      ELSE sector_coord2num(c[1] - 1, bitlist2int(in_azim_bits))

\* get_all_adjacent_sectors of the grid og
grid_get_all_adjacent_sectors(og, sec_num) ==
  LET in_sec == get_radial_in_sector(sec_num)
      out_sec == grid_get_radial_out_sector(og, sec_num)
  IN  {get_prograde_sector(sec_num), get_retrograde_sector(sec_num)}
        \cup (IF in_sec # NoSector THEN {in_sec} ELSE {})
        \cup (IF out_sec # NoSector THEN {out_sec, get_prograde_sector(out_sec)} ELSE {})

get_all_adjacent_sectors(sec_num) == grid_get_all_adjacent_sectors(board_grid, sec_num)

(***************************************************************************)
(* Tokens: "<player>:<role>:<index>" (koth.py, initial_game_state)         *)
(***************************************************************************)
ALPHA_SEEKER == "alpha:HVA:0"
BETA_SEEKER == "beta:HVA:0"
ALPHA_BLUDGER == "alpha:Patrol:1"
BETA_BLUDGER == "beta:Patrol:1"

\* the keys of token_catalog, in insertion order
token_order == <<ALPHA_SEEKER, BETA_SEEKER, ALPHA_BLUDGER, BETA_BLUDGER>>
Tokens == {token_order[i] : i \in 1..Len(token_order)}

\* parse_token_id: token_name.split(':')
parse_token_id(t) ==
  CASE t = ALPHA_SEEKER -> <<P1, SEEKER, 0>>
    [] t = BETA_SEEKER -> <<P2, SEEKER, 0>>
    [] t = ALPHA_BLUDGER -> <<P1, BLUDGER, 1>>
    [] t = BETA_BLUDGER -> <<P2, BLUDGER, 1>>

token_player(t) == parse_token_id(t)[1]
token_role(t) == parse_token_id(t)[2]
is_same_player(t1, t2) == token_player(t1) = token_player(t2)

\* EngagementTuple.prob of the entries of the legal-action table (None)
NoProb == -1

MovementTuple(action_type) == [action_type |-> action_type]
EngagementTuple(action_type, target, prob) ==
  [action_type |-> action_type, target |-> target, prob |-> prob]
EngagementOutcomeTuple(action_type, attacker, target, guardian, prob, success) ==
  [action_type |-> action_type, attacker |-> attacker, target |-> target,
   guardian |-> guardian, prob |-> prob, success |-> success]

(***************************************************************************)
(* koth.py: module-level functions                                         *)
(***************************************************************************)
\* tok is the token catalog: token name -> [position, fuel, ammo]
get_token_adjacency_graph(tok) ==
  {e \in Tokens \X Tokens :
     /\ e[1] # e[2]
     /\ tok[e[2]].position \in
          {tok[e[1]].position} \cup get_all_adjacent_sectors(tok[e[1]].position)}

neighbors(adj, t) == {u \in Tokens : <<t, u>> \in adj}

legal_movement_actions(tok, t) ==
  IF tok[t].fuel <= 0 THEN {MovementTuple(NOOP)}
  ELSE {MovementTuple(NOOP), MovementTuple(PROGRADE), MovementTuple(RETROGRADE)}
         \cup (IF sector_num2ring(tok[t].position) > min_ring
               THEN {MovementTuple(RADIAL_IN)} ELSE {})
         \cup (IF sector_num2ring(tok[t].position) < max_ring
               THEN {MovementTuple(RADIAL_OUT)} ELSE {})

\* a shot is legal without ammunition
legal_engagement_actions_any_ammo(tok, adj, t) ==
  IF tok[t].fuel <= 0 THEN {EngagementTuple(NOOP, t, NoProb)}
  ELSE {EngagementTuple(NOOP, t, NoProb)}
         \cup {EngagementTuple(GUARD, u, NoProb) : u \in
                {u \in neighbors(adj, t) :
                   /\ is_same_player(t, u)
                   /\ token_role(u) = SEEKER
                   /\ \E a \in neighbors(adj, u) :
                        ~is_same_player(a, t) /\ tok[a].fuel > 0}}
         \cup {EngagementTuple(k, u, NoProb) :
                 k \in {COLLIDE, SHOOT},
                 u \in {u \in neighbors(adj, t) :
                          ~is_same_player(t, u) /\ tok[u].fuel > 0}}

legal_engagement_actions(tok, adj, t) ==
  IF tok[t].fuel <= 0 THEN {EngagementTuple(NOOP, t, NoProb)}
  ELSE {EngagementTuple(NOOP, t, NoProb)}
         \cup {EngagementTuple(GUARD, u, NoProb) : u \in
                {u \in neighbors(adj, t) :
                   /\ is_same_player(t, u)
                   /\ token_role(u) = SEEKER
                   /\ \E a \in neighbors(adj, u) :
                        ~is_same_player(a, t) /\ tok[a].fuel > 0}}
         \cup {EngagementTuple(COLLIDE, u, NoProb) : u \in
                {u \in neighbors(adj, t) :
                   ~is_same_player(t, u) /\ tok[u].fuel > 0}}
         \cup {EngagementTuple(SHOOT, u, NoProb) : u \in
                {u \in neighbors(adj, t) :
                   ~is_same_player(t, u) /\ tok[u].fuel > 0 /\ tok[t].ammo >= 1}}

get_legal_verbose_actions(turn_phase, tok, adj) ==
  [t \in Tokens |->
     CASE turn_phase = MOVEMENT -> legal_movement_actions(tok, t)
       [] turn_phase = ENGAGEMENT -> legal_engagement_actions(tok, adj, t)
       [] turn_phase = DRIFT -> {}]

\* actions is a function from the declared token names to action tuples,
\* or None (drift)
is_legal_verbose_action(token, action, legal_actions) ==
  IF "target" \in DOMAIN action
  THEN EngagementTuple(action.action_type, action.target, NoProb) \in legal_actions[token]
  ELSE action \in legal_actions[token]

get_illegal_verbose_actions(actions, legal_actions) ==
  IF actions = None THEN {}
  ELSE {t \in DOMAIN actions : ~is_legal_verbose_action(t, actions[t], legal_actions)}

(***************************************************************************)
(* koth.py: KOTHGame                                                       *)
(***************************************************************************)
\* the bludger positions an init board pattern produces, in token order
RECURSIVE pattern_positions(_, _)
pattern_positions(pattern, hill) ==
  IF Len(pattern) = 0 THEN <<>>
  ELSE [i \in 1..pattern[1][2] |-> get_relative_azimuth_sector(hill, pattern[1][1])]
         \o pattern_positions(Tail(pattern), hill)

bludger_token(p, i) == IF p = P1 THEN ALPHA_BLUDGER ELSE BETA_BLUDGER
seeker_token(p) == IF p = P1 THEN ALPHA_SEEKER ELSE BETA_SEEKER

get_fuel_points_of(tok, player_id) ==
  LET f(t) == IF token_player(t) = player_id /\ tok[t].fuel > 0
              THEN tok[t].fuel * (IF token_role(t) = SEEKER
                                  THEN fuel_points_factor
                                  ELSE fuel_points_factor_bludger)
              ELSE 0
  IN  (f(ALPHA_SEEKER) + f(BETA_SEEKER) + f(ALPHA_BLUDGER) + f(BETA_BLUDGER))
        \div FactorDen

get_fuel_points(g, player_id) == get_fuel_points_of(g.tok, player_id)

\* the arguments of KOTHGame.__init__ that initial_game_state reads for the
\* token catalog
InputArgs(mf, fuel, ammo_seeker, ammo_bludger, pattern_p1, pattern_p2) ==
  [min_fuel |-> mf, init_fuel |-> fuel, init_ammo_seeker |-> ammo_seeker,
   init_ammo_bludger |-> ammo_bludger, init_board_pattern_p1 |-> pattern_p1,
   init_board_pattern_p2 |-> pattern_p2]

inargs ==
  InputArgs(min_fuel, init_fuel, init_ammo_seeker, init_ammo_bludger,
            init_board_pattern_p1, init_board_pattern_p2)

p1_hill == sector_coord2num(geo_ring, 0)
p2_hill == sector_coord2num(geo_ring, get_num_sectors_in_ring(geo_ring) \div 2)

\* the token catalog of initial_game_state: the Seekers on their hills, the
\* Bludgers of the two patterns, and the player with fewer Bludgers padded
\* with removed satellites
initial_token_catalog(a) ==
  LET pos1 == pattern_positions(a.init_board_pattern_p1, p1_hill)
      pos2 == pattern_positions(a.init_board_pattern_p2, p2_hill)
      seeker(hill) ==
        [position |-> hill, fuel |-> a.init_fuel, ammo |-> a.init_ammo_seeker]
      bludger(pos, i) ==
        IF i <= Len(pos)
        THEN [position |-> pos[i], fuel |-> a.init_fuel, ammo |-> a.init_ammo_bludger]
        ELSE [position |-> 0, fuel |-> 0, ammo |-> 0]
  IN  [t \in Tokens |->
         CASE t = ALPHA_SEEKER -> seeker(p1_hill)
           [] t = BETA_SEEKER -> seeker(p2_hill)
           [] t = ALPHA_BLUDGER -> bludger(pos1, 1)
           [] t = BETA_BLUDGER -> bludger(pos2, 1)]

initial_game_state ==
  LET tok == initial_token_catalog(inargs)
      adj == get_token_adjacency_graph(tok)
  IN  [goal |-> [p \in player_names |-> IF p = P1 THEN p1_hill ELSE p2_hill],
       score |-> [p \in player_names |-> 0],
       fuel_score |-> [p \in player_names |-> 0],
       turn_count |-> 0,
       game_done |-> FALSE,
       turn_phase |-> MOVEMENT,
       tok |-> tok,
       token_adjacency |-> adj,
       legal_actions |-> get_legal_verbose_actions(MOVEMENT, tok, adj)]

\* reset_game does not touch self.engagement_outcomes
reset_game(g) ==
  LET s == initial_game_state
      pts == [p \in player_names |-> get_fuel_points_of(s.tok, p)]
  IN  [s EXCEPT !.score = pts, !.fuel_score = pts]
        @@ [engagement_outcomes |-> g.engagement_outcomes]

\* the game object a server is constructed with: KOTHGame.__init__
\* self.engagement_outcomes = None, as a value comparable with a list of outcomes
NoOutcomes == <<None>>

new_game == reset_game([engagement_outcomes |-> NoOutcomes])

\* update_turn_phase without the assignment of the turn phase
update_turn_phase_not_assigned(g, turn_phase) ==
  LET adj == get_token_adjacency_graph(g.tok)
  IN  [g EXCEPT !.token_adjacency = adj,
                !.legal_actions = get_legal_verbose_actions(g.turn_phase, g.tok, adj)]

\* the phase is assigned and the two tables are left as they were
update_turn_phase_stale_tables(g, turn_phase) == [g EXCEPT !.turn_phase = turn_phase]

update_turn_phase(g, turn_phase) ==
  LET adj == get_token_adjacency_graph(g.tok)
  IN  [g EXCEPT !.turn_phase = turn_phase,
                !.token_adjacency = adj,
                !.legal_actions = get_legal_verbose_actions(turn_phase, g.tok, adj)]

terminate_game(g) == [g EXCEPT !.game_done = TRUE]

\* the rewards terminate_game returns
\* both players are handed the difference seen from alpha
score_diff_rewards_of_alpha(g) == [p \in player_names |-> g.score[P1] - g.score[P2]]

score_diff_rewards(g) ==
  [p \in player_names |->
     IF p = P1 THEN g.score[P1] - g.score[P2] ELSE g.score[P2] - g.score[P1]]

zero_rewards == [p \in player_names |-> 0]

(***************************************************************************)
(* engagement_graph.py: EngagementGraph.  The graph is [nodes, edges]; an  *)
(* edge is [src, tar, etype, prob].  np.random.shuffle is any ordering and *)
(* np.random.rand() < p any outcome the probability allows, so each        *)
(* resolve_* operator yields the set of its possible results.              *)
(***************************************************************************)
RECURSIVE Perms(_)
Perms(S) ==
  IF S = {} THEN {<<>>}
  ELSE UNION {{<<x>> \o q : q \in Perms(S \ {x})} : x \in S}

\* the outcomes of np.random.rand() < prob, rand() being in [0, 1)
rand_lt(prob) ==
  IF prob <= 0 THEN {FALSE} ELSE IF prob >= ProbDen THEN {TRUE} ELSE {TRUE, FALSE}

Edge(src, tar, etype, prob) == [src |-> src, tar |-> tar, etype |-> etype, prob |-> prob]

EngagementGraph(engagements) ==
  [nodes |-> DOMAIN engagements \cup
              {engagements[t].target :
                 t \in {t \in DOMAIN engagements :
                          engagements[t].action_type \in ENGAGEMENT_TYPES}},
   edges |-> {Edge(t, engagements[t].target, engagements[t].action_type,
                   engagements[t].prob) :
                t \in {t \in DOMAIN engagements :
                         engagements[t].action_type \in ENGAGEMENT_TYPES}}]

\* the edge is left in the graph
remove_edge_left(eg, src, tar) == eg

remove_edge(eg, src, tar) ==
  [eg EXCEPT !.edges = {e \in @ : ~(e.src = src /\ e.tar = tar)}]

add_edge(eg, e) ==
  [nodes |-> eg.nodes \cup {e.src, e.tar},
   edges |-> {x \in eg.edges : ~(x.src = e.src /\ x.tar = e.tar)} \cup {e}]

remove_nodes_from(eg, ns) ==
  [nodes |-> eg.nodes \ ns,
   edges |-> {e \in eg.edges : e.src \notin ns /\ e.tar \notin ns}]

\* guard_prob * (0.5 ** guard_count)
decayed_guard_prob(guard_prob, guard_count) == guard_prob \div Pow2(guard_count)

\* the loop over the incident attack edges of one guard edge; st is
\* [egraph, outcomes]
RECURSIVE guard_attacks(_, _, _, _)
guard_attacks(st, ge, in_att_edges, guard_count) ==
  IF Len(in_att_edges) = 0 THEN {st}
  ELSE LET iae == Head(in_att_edges)
           prob == decayed_guard_prob(ge.prob, guard_count)
           after(success) ==
             [egraph |-> IF success
                         THEN add_edge(remove_edge(st.egraph, iae.src, iae.tar),
                                       Edge(iae.src, ge.src, iae.etype, iae.prob))
                         ELSE st.egraph,
              outcomes |-> Append(st.outcomes,
                                  EngagementOutcomeTuple(GUARD, iae.src, ge.tar, ge.src,
                                                         prob, success))]
       IN  UNION {guard_attacks(after(success), ge, Tail(in_att_edges), guard_count + 1) :
                    success \in rand_lt(prob)}

guard_one(st, ge) ==
  LET eg == remove_edge(st.egraph, ge.src, ge.tar)
      in_att_edges == {e \in eg.edges : e.tar = ge.tar /\ e.etype \in {SHOOT, COLLIDE}}
  IN  IF in_att_edges = {}
      THEN {[egraph |-> eg,
             outcomes |-> Append(st.outcomes,
                                 EngagementOutcomeTuple(GUARD, "None", ge.tar, ge.src,
                                                        ge.prob, FALSE))]}
      ELSE UNION {guard_attacks([egraph |-> eg, outcomes |-> st.outcomes], ge, order, 0) :
                    order \in Perms(in_att_edges)}

RECURSIVE guard_loop(_, _)
guard_loop(st, guard_edges) ==
  IF Len(guard_edges) = 0 THEN {st}
  ELSE UNION {guard_loop(s, Tail(guard_edges)) : s \in guard_one(st, Head(guard_edges))}

resolve_guard_engagements(eg) ==
  UNION {guard_loop([egraph |-> eg, outcomes |-> <<>>], order) :
           order \in Perms({e \in eg.edges : e.etype = GUARD})}

\* a successful shot removes its target at once, and with it the shot the
\* target has not fired yet
RECURSIVE shoot_loop_removing_at_once(_, _)
shoot_loop_removing_at_once(st, shoot_edges) ==
  IF Len(shoot_edges) = 0 THEN {st}
  ELSE LET e == Head(shoot_edges)
           after(success) ==
             [egraph |-> IF success
                         THEN remove_nodes_from(remove_edge(st.egraph, e.src, e.tar),
                                                {e.tar})
                         ELSE remove_edge(st.egraph, e.src, e.tar),
              outcomes |-> Append(st.outcomes,
                                  EngagementOutcomeTuple(SHOOT, e.src, e.tar, "",
                                                         e.prob, success)),
              node_removal_set |-> st.node_removal_set]
       IN  IF e.src \notin st.egraph.nodes
           THEN shoot_loop_removing_at_once(st, Tail(shoot_edges))
           ELSE UNION {shoot_loop_removing_at_once(after(success), Tail(shoot_edges)) :
                         success \in rand_lt(e.prob)}

\* st is [egraph, outcomes, node_removal_set]
RECURSIVE shoot_loop(_, _)
shoot_loop(st, shoot_edges) ==
  IF Len(shoot_edges) = 0 THEN {st}
  ELSE LET e == Head(shoot_edges)
           after(success) ==
             [egraph |-> remove_edge(st.egraph, e.src, e.tar),
              outcomes |-> Append(st.outcomes,
                                  EngagementOutcomeTuple(SHOOT, e.src, e.tar, "",
                                                         e.prob, success)),
              node_removal_set |-> IF success THEN st.node_removal_set \cup {e.tar}
                                   ELSE st.node_removal_set]
       IN  UNION {shoot_loop(after(success), Tail(shoot_edges)) :
                    success \in rand_lt(e.prob)}

resolve_shoot_engagements(eg) ==
  {[egraph |-> remove_nodes_from(s.egraph, s.node_removal_set), outcomes |-> s.outcomes] :
     s \in UNION {shoot_loop([egraph |-> eg, outcomes |-> <<>>, node_removal_set |-> {}],
                             order) :
                    order \in Perms({e \in eg.edges : e.etype = SHOOT})}}

\* a successful collision removes its target only
collide_once_target_only(st) ==
  LET collide_edges == {e \in st.egraph.edges : e.etype = COLLIDE}
      after(e, success) ==
        [egraph |-> IF success
                    THEN remove_nodes_from(remove_edge(st.egraph, e.src, e.tar), {e.tar})
                    ELSE remove_edge(st.egraph, e.src, e.tar),
         outcomes |-> Append(st.outcomes,
                             EngagementOutcomeTuple(COLLIDE, e.src, e.tar, "",
                                                    e.prob, success))]
  IN  UNION {{after(e, success) : success \in rand_lt(e.prob)} : e \in collide_edges}

\* one pass of the while loop of resolve_collide_engagements in a graph that
\* has a collide edge: any of them comes first in the shuffled list
collide_once(st) ==
  LET collide_edges == {e \in st.egraph.edges : e.etype = COLLIDE}
      after(e, success) ==
        [egraph |-> IF success
                    THEN remove_nodes_from(remove_edge(st.egraph, e.src, e.tar),
                                           {e.src, e.tar})
                    ELSE remove_edge(st.egraph, e.src, e.tar),
         outcomes |-> Append(st.outcomes,
                             EngagementOutcomeTuple(COLLIDE, e.src, e.tar, "",
                                                    e.prob, success))]
  IN  UNION {{after(e, success) : success \in rand_lt(e.prob)} : e \in collide_edges}

RECURSIVE collide_loop(_)
collide_loop(st) ==
  IF {e \in st.egraph.edges : e.etype = COLLIDE} = {} THEN {st}
  ELSE UNION {collide_loop(s) : s \in collide_once(st)}

resolve_collide_engagements(eg) == collide_loop([egraph |-> eg, outcomes |-> <<>>])

(***************************************************************************)
(* koth.py: KOTHGame, the phase step                                       *)
(***************************************************************************)
\* the fuel an action needs (apply_fuel_constraints); noop is a movement type
action_fuel_usage(g, token_name, action_tuple) ==
  IF action_tuple.action_type \in MOVEMENT_TYPES
  THEN fuel_usage(action_tuple.action_type)
  ELSE IF g.tok[token_name].position = g.tok[action_tuple.target].position
       THEN fuel_usage_engage(IN_SEC, action_tuple.action_type)
       ELSE fuel_usage_engage(ADJ_SEC, action_tuple.action_type)

min_fuel_action_tuple(token_name, action_tuple) ==
  IF action_tuple.action_type \in MOVEMENT_TYPES
  THEN MovementTuple(NOOP)
  ELSE EngagementTuple(NOOP, token_name, NoProb)

has_sufficient_fuel(g, token_name, action_tuple) ==
  ~(g.tok[token_name].fuel - action_fuel_usage(g, token_name, action_tuple) < min_fuel)

\* apply_fuel_constraints: the game with the fuel decremented ...
fuel_constrained_game(g, actions) ==
  [g EXCEPT !.tok =
     [t \in Tokens |->
        IF t \in DOMAIN actions /\ has_sufficient_fuel(g, t, actions[t])
        THEN [g.tok[t] EXCEPT !.fuel = @ - action_fuel_usage(g, t, actions[t])]
        ELSE g.tok[t]]]

\* ... and the fuel-constrained actions it returns
apply_fuel_constraints(g, actions) ==
  [t \in DOMAIN actions |->
     IF has_sufficient_fuel(g, t, actions[t]) THEN actions[t]
     ELSE min_fuel_action_tuple(t, actions[t])]

move_sector(cur_sec, move) ==
  CASE move = NOOP -> cur_sec
    [] move = PROGRADE -> get_prograde_sector(cur_sec)
    [] move = RETROGRADE -> get_retrograde_sector(cur_sec)
    [] move = RADIAL_IN -> get_radial_in_sector(cur_sec)
    [] move = RADIAL_OUT -> get_radial_out_sector(cur_sec)

move_pieces(g, moves) ==
  [g EXCEPT !.tok =
     [t \in Tokens |->
        IF t \in DOMAIN moves
        THEN [g.tok[t] EXCEPT !.position = move_sector(@, moves[t].action_type)]
        ELSE g.tok[t]]]

\* the resolution of the graph of all the declarations, nothing pruned
resolve_engagements_unpruned(g, engagements) ==
  LET eg == EngagementGraph(engagements)
  IN  UNION {UNION {{gs.outcomes \o ss.outcomes \o cs.outcomes :
                       cs \in resolve_collide_engagements(ss.egraph)} :
                      ss \in resolve_shoot_engagements(gs.egraph)} :
               gs \in resolve_guard_engagements(eg)}

\* the possible outcome sequences (eg_outcomes) of one resolution
resolve_engagements(g, engagements) ==
  LET zero_fuel_pieces == {k \in Tokens : g.tok[k].fuel <= min_fuel}
      eg == remove_nodes_from(EngagementGraph(engagements), zero_fuel_pieces)
  IN  UNION {UNION {{gs.outcomes \o ss.outcomes \o cs.outcomes :
                       cs \in resolve_collide_engagements(ss.egraph)} :
                      ss \in resolve_shoot_engagements(gs.egraph)} :
               gs \in resolve_guard_engagements(eg)}

\* a shot that misses costs no ammunition
enact_one_hits_only(tok, egout) ==
  CASE egout.action_type = SHOOT ->
         IF egout.success
         THEN [tok EXCEPT ![egout.attacker].ammo = @ - 1, ![egout.target].fuel = min_fuel]
         ELSE tok
    [] egout.action_type = COLLIDE ->
         LET t1 == [tok EXCEPT ![egout.attacker].position = tok[egout.target].position]
         IN  IF egout.success
             THEN [t1 EXCEPT ![egout.attacker].fuel = min_fuel,
                             ![egout.target].fuel = min_fuel]
             ELSE t1
    [] egout.action_type = GUARD ->
         [tok EXCEPT ![egout.guardian].position = tok[egout.target].position]
    [] egout.action_type = NOOP -> tok

enact_one(tok, egout) ==
  CASE egout.action_type = SHOOT ->
         LET t1 == [tok EXCEPT ![egout.attacker].ammo = @ - 1]
         IN  IF egout.success THEN [t1 EXCEPT ![egout.target].fuel = min_fuel] ELSE t1
    [] egout.action_type = COLLIDE ->
         LET t1 == [tok EXCEPT ![egout.attacker].position = tok[egout.target].position]
         IN  IF egout.success
             THEN [t1 EXCEPT ![egout.attacker].fuel = min_fuel,
                             ![egout.target].fuel = min_fuel]
             ELSE t1
    [] egout.action_type = GUARD ->
         [tok EXCEPT ![egout.guardian].position = tok[egout.target].position]
    [] egout.action_type = NOOP -> tok

RECURSIVE enact_seq(_, _)
enact_seq(tok, outcomes) ==
  IF Len(outcomes) = 0 THEN tok
  ELSE enact_seq(enact_one(tok, Head(outcomes)), Tail(outcomes))

enact_engagements(g) == [g EXCEPT !.tok = enact_seq(@, g.engagement_outcomes)]

\* get_points, for one player
get_points(g, p) ==
  LET seek == g.tok[seeker_token(p)].position
  IN  IF seek = g.goal[p] THEN in_goal_points
      ELSE IF seek \in get_all_adjacent_sectors(g.goal[p]) THEN adj_goal_points
      ELSE 0

\* the terminal conditions without the limit of turns
is_terminal_game_state_no_turn_limit(g) ==
  \/ g.tok[ALPHA_SEEKER].fuel <= min_fuel
  \/ g.tok[BETA_SEEKER].fuel <= min_fuel
  \/ g.score[P1] >= win_score
  \/ g.score[P2] >= win_score

is_terminal_game_state(g) ==
  \/ g.tok[ALPHA_SEEKER].fuel <= min_fuel
  \/ g.tok[BETA_SEEKER].fuel <= min_fuel
  \/ g.score[P1] >= win_score
  \/ g.score[P2] >= win_score
  \/ g.turn_count >= max_turns

\* an illegal action of either player costs both players their score
enforce_legal_verbose_actions_for_both(g, actions) ==
  LET illegal_actions == get_illegal_verbose_actions(actions, g.legal_actions)
  IN  [g EXCEPT !.score =
         [p \in player_names |->
            IF illegal_actions # {} THEN illegal_action_score ELSE g.score[p]]]

enforce_legal_verbose_actions(g, actions) ==
  LET illegal_actions == get_illegal_verbose_actions(actions, g.legal_actions)
  IN  [g EXCEPT !.score =
         [p \in player_names |->
            IF \E t \in illegal_actions : token_player(t) = p
            THEN illegal_action_score ELSE g.score[p]]]

all_valid_acts(g, actions) == get_illegal_verbose_actions(actions, g.legal_actions) = {}

\* the drift step adding the fuel points of every turn to the score
drift_scores_accumulating(g) ==
  LET fuel_points == [p \in player_names |-> get_fuel_points(g, p)]
  IN  [g EXCEPT !.score = [p \in player_names |->
                             g.score[p] + get_points(g, p) + fuel_points[p]],
                !.fuel_score = fuel_points]

\* the scores of the drift step
drift_scores(g) ==
  LET fuel_points == [p \in player_names |-> get_fuel_points(g, p)]
  IN  [g EXCEPT !.score = [p \in player_names |->
                             (g.score[p] - g.fuel_score[p]) + get_points(g, p)
                               + fuel_points[p]],
                !.fuel_score = fuel_points]

\* the drift of the tokens and the hills, and the turn counter
drift_motion(g) ==
  [g EXCEPT !.tok = [t \in Tokens |->
                       [position |-> get_prograde_sector(g.tok[t].position),
                        fuel |-> IF g.tok[t].fuel - fuel_usage(DRIFT) > min_fuel
                                 THEN g.tok[t].fuel - fuel_usage(DRIFT) ELSE min_fuel,
                        ammo |-> g.tok[t].ammo]],
            !.goal = [p \in player_names |-> get_prograde_sector(g.goal[p])],
            !.turn_count = @ + 1]

\* apply_verbose_actions: the set of possible results [game, rewards]
step_result(g, rewards) == [game |-> g, rewards |-> rewards]

apply_verbose_actions(g, actions) ==
  IF g.turn_phase \in {MOVEMENT, ENGAGEMENT}
  THEN IF ~all_valid_acts(g, actions)
       THEN LET t == terminate_game(enforce_legal_verbose_actions(g, actions))
            IN  {step_result(t, score_diff_rewards(t))}
       ELSE LET fg == fuel_constrained_game(g, actions)
                fuel_constrained_actions == apply_fuel_constraints(g, actions)
            IN  IF g.turn_phase = MOVEMENT
                THEN {step_result(
                        update_turn_phase(move_pieces(fg, fuel_constrained_actions),
                                          ENGAGEMENT),
                        zero_rewards)}
                ELSE {step_result(
                        update_turn_phase(
                          enact_engagements([fg EXCEPT !.engagement_outcomes = o]), DRIFT),
                        zero_rewards) :
                        o \in resolve_engagements(fg, fuel_constrained_actions)}
  ELSE LET sg == drift_scores(g)
       IN  IF is_terminal_game_state(sg)
           THEN LET t == terminate_game(sg) IN {step_result(t, score_diff_rewards(t))}
           ELSE {step_result(update_turn_phase(drift_motion(sg), MOVEMENT), zero_rewards)}

(***************************************************************************)
(* game_server.py: message names                                           *)
(***************************************************************************)
GAME_RESET == "gameReset"
MOVE_PHASE == "movementPhase"
ENGAGE_PHASE == "engagementPhase"
DRIFT_PHASE == "driftPhase"
ECHO == "echo"
PLAYER_REGISTRATION == "playerRegistration"
GAME_RESET_RESP == "gameResetResponse"
DRIFT_PHASE_RESP == "driftPhaseResponse"
MOVE_PHASE_REQ == "movementPhaseRequest"
MOVE_PHASE_RESP == "movementPhaseResponse"
ENGAGE_PHASE_REQ == "engagementPhaseRequest"
ENGAGE_PHASE_RESP == "engagementPhaseResponse"
PLAYER_REGISTRATION_RESP == "playerRegistrationResponse"
WAITING_RESP == "waitingResponse"
ADVANCING_RESP == "advancingResponse"
CUR_2P_API_VERSION == "v2022.07.26.0000.2p"

\* id(self.game)
GAME_ID == "game"

\* an empty slot of player_input_queue
NoRequest == None

ClientIDTuple(alias, uid) == [alias |-> alias, uid |-> uid]

(***************************************************************************)
(* game_server.py: GameServer                                              *)
(***************************************************************************)
echo_request(req_msg) == req_msg

\* get_token_legal_actions: the legal actions as the API's dictionaries
get_token_legal_actions(g, token_name) ==
  CASE g.turn_phase = MOVEMENT ->
         {[actionType |-> i.action_type] : i \in g.legal_actions[token_name]}
    [] g.turn_phase = ENGAGEMENT ->
         {[actionType |-> i.action_type, targetID |-> i.target] :
            i \in g.legal_actions[token_name]}
    [] g.turn_phase = DRIFT -> {}

get_game_state(g) ==
  [turnNumber |-> g.turn_count,
   turnPhase |-> g.turn_phase,
   gameDone |-> g.game_done,
   goalSectorAlpha |-> g.goal[P1],
   goalSectorBeta |-> g.goal[P2],
   scoreAlpha |-> g.score[P1],
   scoreBeta |-> g.score[P2],
   tokenStates |-> [i \in 1..Len(token_order) |->
                      [pieceID |-> token_order[i],
                       fuel |-> g.tok[token_order[i]].fuel,
                       role |-> token_role(token_order[i]),
                       position |-> g.tok[token_order[i]].position,
                       ammo |-> g.tok[token_order[i]].ammo,
                       legalActions |-> get_token_legal_actions(g, token_order[i])]]]

\* the playerRegistry list of a two-player message, in the registry's order
registry_list(player_registry) ==
  (IF P1 \in DOMAIN player_registry
   THEN <<[playerID |-> P1, playerAlias |-> player_registry[P1].alias]>> ELSE <<>>)
  \o (IF P2 \in DOMAIN player_registry
      THEN <<[playerID |-> P2, playerAlias |-> player_registry[P2].alias]>> ELSE <<>>)

format_game_state_response_message(req_msg, data_kind, game_state, engagement_outcomes, player_registry) ==
  [apiVersion |-> CUR_2P_API_VERSION,
   context |-> req_msg.context,
   gameID |-> GAME_ID,
   data |-> IF data_kind = ENGAGE_PHASE_RESP
            THEN [kind |-> data_kind, gameState |-> game_state,
                  resolutionSequence |-> engagement_outcomes,
                  playerRegistry |-> registry_list(player_registry)]
            ELSE [kind |-> data_kind, gameState |-> game_state,
                  playerRegistry |-> registry_list(player_registry)]]

(***************************************************************************)
(* game_server.py: TwoPlayerGameServer.  The server is the record          *)
(* [game, player_registry, player_input_queue]; a handler yields the set   *)
(* of its possible results [srv, resp_msg, published], published being the *)
(* sequence of the messages it sent on the PUB socket and resp_msg         *)
(* NoResponse when it raised instead of returning.                         *)
(***************************************************************************)
NoResponse == [raised |-> "TypeError"]

handle_invalid_request(req_msg, err_str) ==
  [apiVersion |-> CUR_2P_API_VERSION,
   context |-> req_msg.context,
   gameID |-> GAME_ID,
   error |-> [message |-> err_str]]

format_response_with_data(req_msg, resp_data) ==
  [apiVersion |-> CUR_2P_API_VERSION,
   context |-> req_msg.context,
   gameID |-> GAME_ID,
   data |-> resp_data]

handled(srv, resp_msg, published) ==
  [srv |-> srv, resp_msg |-> resp_msg, published |-> published]

reset_player_input_queue == [p \in player_names |-> NoRequest]

player_input_queue_filled(srv) ==
  \A p \in player_names : srv.player_input_queue[p] # NoRequest

\* check_api_version accepting every version
check_api_version_any(req_msg) == TRUE

check_api_version(req_msg) == req_msg.apiVersion = CUR_2P_API_VERSION

\* a TODO in the source: returns None (no error) for every request
check_player_request_tokens(srv, req_msg) == TRUE

\* check_game_context: TRUE when it returns no error message
check_game_context(srv, req_msg) ==
  CASE req_msg.context = GAME_RESET -> TRUE
    [] req_msg.context = MOVE_PHASE ->
         /\ check_player_request_tokens(srv, req_msg)
         /\ srv.game.turn_phase = MOVEMENT
         /\ req_msg.data.kind = MOVE_PHASE_REQ
    [] req_msg.context = ENGAGE_PHASE ->
         /\ check_player_request_tokens(srv, req_msg)
         /\ srv.game.turn_phase = ENGAGEMENT
         /\ req_msg.data.kind = ENGAGE_PHASE_REQ
    [] req_msg.context = DRIFT_PHASE -> srv.game.turn_phase = DRIFT
    [] OTHER -> FALSE

get_engagement_probability(g, token_id, target_id, engagement_type) ==
  IF engagement_type = NOOP THEN engage_probs(IN_SEC, NOOP)
  ELSE IF <<token_id, target_id>> \in g.token_adjacency
       THEN IF g.tok[token_id].position = g.tok[target_id].position
            THEN engage_probs(IN_SEC, engagement_type)
            ELSE engage_probs(ADJ_SEC, engagement_type)
       ELSE 0

\* the action tuple synthesize_verbose_action makes of one selection v
selection_action(g, cntx, v) ==
  IF cntx = MOVE_PHASE THEN MovementTuple(v.actionType)
  ELSE EngagementTuple(v.actionType, v.targetID,
                       get_engagement_probability(g, v.pieceID, v.targetID, v.actionType))

\* {v[PIECE_ID]: ... for v in reqs}: a later entry for a piece replaces an earlier one
RECURSIVE selections_dict(_, _, _)
selections_dict(g, cntx, reqs) ==
  IF Len(reqs) = 0 THEN <<>>
  ELSE LET v == reqs[Len(reqs)]
       IN  (v.pieceID :> selection_action(g, cntx, v))
             @@ selections_dict(g, cntx, SubSeq(reqs, 1, Len(reqs) - 1))

synthesize_verbose_action(srv) ==
  LET req_p1 == srv.player_input_queue[P1]
      req_p2 == srv.player_input_queue[P2]
      cntx == req_p1.context
  IN  CASE cntx = DRIFT_PHASE -> [actions |-> None, data_kind |-> DRIFT_PHASE_RESP]
        [] cntx = MOVE_PHASE ->
             [actions |-> selections_dict(srv.game, cntx,
                            req_p1.data.selections \o req_p2.data.selections),
              data_kind |-> MOVE_PHASE_RESP]
        [] cntx = ENGAGE_PHASE ->
             [actions |-> selections_dict(srv.game, cntx,
                            req_p1.data.selections \o req_p2.data.selections),
              data_kind |-> ENGAGE_PHASE_RESP]

other_player(player_id) == IF player_id = P1 THEN P2 ELSE P1

\* the action map in which the selections of the request that arrived last
\* come last
synthesize_in_arrival_order(srv, req_msg) ==
  LET first == IF srv.player_input_queue[P1] = req_msg
               THEN srv.player_input_queue[P2] ELSE srv.player_input_queue[P1]
  IN  [actions |-> selections_dict(srv.game, req_msg.context,
                                   first.data.selections \o req_msg.data.selections),
       data_kind |-> IF req_msg.context = MOVE_PHASE THEN MOVE_PHASE_RESP
                     ELSE ENGAGE_PHASE_RESP]

apply_player_requests_in_arrival_order(srv, req_msg, cntx) ==
  IF cntx = GAME_RESET
  THEN {[game |-> reset_game(srv.game), data_kind |-> GAME_RESET_RESP]}
  ELSE LET syn == IF cntx = DRIFT_PHASE THEN synthesize_verbose_action(srv)
                  ELSE synthesize_in_arrival_order(srv, req_msg)
       IN  {[game |-> r.game, data_kind |-> syn.data_kind] :
              r \in apply_verbose_actions(srv.game, syn.actions)}

\* the two queued requests applied to the game, a pair of gameReset requests
\* leaving it as it is
apply_player_requests_without_reset(srv, req_msg, cntx) ==
  IF cntx = GAME_RESET
  THEN {[game |-> srv.game, data_kind |-> GAME_RESET_RESP]}
  ELSE LET syn == synthesize_verbose_action(srv)
       IN  {[game |-> r.game, data_kind |-> syn.data_kind] :
              r \in apply_verbose_actions(srv.game, syn.actions)}

\* the part of process_game_action_request that resets the game or applies
\* the two queued requests to it: the possible [game, data_kind]
apply_player_requests(srv, req_msg, cntx) ==
  IF cntx = GAME_RESET
  THEN {[game |-> reset_game(srv.game), data_kind |-> GAME_RESET_RESP]}
  ELSE LET syn == synthesize_verbose_action(srv)
       IN  {[game |-> r.game, data_kind |-> syn.data_kind] :
              r \in apply_verbose_actions(srv.game, syn.actions)}

\* the part of process_game_action_request that runs when both requests are
\* present and their contexts match: step or reset, publish, clear the queue
advance_game(srv, req_msg, cntx) ==
  LET finish(st) ==
        LET s1 == [srv EXCEPT !.game = st.game]
        IN  IF cntx = ENGAGE_PHASE /\ st.game.engagement_outcomes = NoOutcomes
            THEN \* iterating over None raises TypeError: no publish, no reply,
                 \* the queue is not reset
                 handled(s1, NoResponse, <<>>)
            ELSE handled(
                   [s1 EXCEPT !.player_input_queue = reset_player_input_queue],
                   format_response_with_data(req_msg, [kind |-> ADVANCING_RESP]),
                   <<format_game_state_response_message(
                       req_msg, st.data_kind, get_game_state(st.game),
                       IF cntx = ENGAGE_PHASE THEN st.game.engagement_outcomes
                       ELSE NoOutcomes,
                       srv.player_registry)>>)
  IN  {finish(st) : st \in apply_player_requests(srv, req_msg, cntx)}

\* process_game_action_request taking the request of one player for the
\* requests of both
process_game_action_request_of_one(srv, req_msg, player_id) ==
  IF ~check_game_context(srv, req_msg)
  THEN {handled(srv, handle_invalid_request(req_msg, "ContextPhaseMismatch"), <<>>)}
  ELSE advance_game([srv EXCEPT !.player_input_queue = [p \in player_names |-> req_msg]],
                    req_msg, req_msg.context)

process_game_action_request(srv, req_msg, player_id) ==
  IF ~check_game_context(srv, req_msg)
  THEN {handled(srv, handle_invalid_request(req_msg, "ContextPhaseMismatch"), <<>>)}
  ELSE LET s1 == [srv EXCEPT !.player_input_queue[player_id] = req_msg]
           cntx == req_msg.context
       IN  IF player_input_queue_filled(s1)
           THEN IF cntx # s1.player_input_queue[other_player(player_id)].context
                THEN {handled(s1, handle_invalid_request(req_msg,
                                                         "MismatchedPlayerContexts"), <<>>)}
                ELSE advance_game(s1, req_msg, cntx)
           ELSE {handled(s1, format_response_with_data(req_msg, [kind |-> WAITING_RESP]),
                         <<>>)}

\* the return of register_new_player that reports err_str
reject_registration(srv, req_msg, err_str) ==
  [srv |-> srv, resp_msg |-> handle_invalid_request(req_msg, err_str),
   start_game |-> FALSE]

\* the return of register_new_player that stores cli_id in the slot plr_id
accept_registration(srv, req_msg, cli_id, plr_id, start_game) ==
  [srv |-> [srv EXCEPT !.player_registry = (plr_id :> cli_id) @@ @],
   resp_msg |-> format_response_with_data(req_msg,
                  [kind |-> PLAYER_REGISTRATION_RESP,
                   playerAlias |-> cli_id.alias,
                   playerID |-> plr_id,
                   playerUUID |-> cli_id.uid]),
   start_game |-> start_game]

\* register_new_player filling the Beta slot before the Alpha slot
register_new_player_beta_first(srv, client_uid, req_msg) ==
  LET cli_id == ClientIDTuple(req_msg.playerAlias, client_uid)
  IN  IF req_msg.has_data THEN reject_registration(srv, req_msg, "UnexpectedDataField")
      ELSE IF \E p \in DOMAIN srv.player_registry :
                srv.player_registry[p].alias = cli_id.alias
      THEN reject_registration(srv, req_msg, "AliasCollision")
      ELSE IF P2 \notin DOMAIN srv.player_registry
      THEN accept_registration(srv, req_msg, cli_id, P2, P1 \in DOMAIN srv.player_registry)
      ELSE IF P1 \notin DOMAIN srv.player_registry
      THEN accept_registration(srv, req_msg, cli_id, P1, TRUE)
      ELSE reject_registration(srv, req_msg, "NoSlotAvailable")

\* register_new_player starting the game at every registration
register_new_player_always_starting(srv, client_uid, req_msg) ==
  LET cli_id == ClientIDTuple(req_msg.playerAlias, client_uid)
  IN  IF req_msg.has_data THEN reject_registration(srv, req_msg, "UnexpectedDataField")
      ELSE IF \E p \in DOMAIN srv.player_registry :
                srv.player_registry[p].alias = cli_id.alias
      THEN reject_registration(srv, req_msg, "AliasCollision")
      ELSE IF P1 \notin DOMAIN srv.player_registry
      THEN accept_registration(srv, req_msg, cli_id, P1, TRUE)
      ELSE IF P2 \notin DOMAIN srv.player_registry
      THEN accept_registration(srv, req_msg, cli_id, P2, TRUE)
      ELSE reject_registration(srv, req_msg, "NoSlotAvailable")

\* register_new_player without the search for the alias in the registry
register_new_player_ignoring_aliases(srv, client_uid, req_msg) ==
  LET cli_id == ClientIDTuple(req_msg.playerAlias, client_uid)
  IN  IF req_msg.has_data THEN reject_registration(srv, req_msg, "UnexpectedDataField")
      ELSE IF P1 \notin DOMAIN srv.player_registry
      THEN accept_registration(srv, req_msg, cli_id, P1, FALSE)
      ELSE IF P2 \notin DOMAIN srv.player_registry
      THEN accept_registration(srv, req_msg, cli_id, P2, TRUE)
      ELSE reject_registration(srv, req_msg, "NoSlotAvailable")

\* register_new_player: [srv, resp_msg, start_game]
register_new_player(srv, client_uid, req_msg) ==
  LET cli_id == ClientIDTuple(req_msg.playerAlias, client_uid)
  IN  IF req_msg.has_data THEN reject_registration(srv, req_msg, "UnexpectedDataField")
      ELSE IF \E p \in DOMAIN srv.player_registry :
                srv.player_registry[p].alias = cli_id.alias
      THEN reject_registration(srv, req_msg, "AliasCollision")
      ELSE IF P1 \notin DOMAIN srv.player_registry
      THEN accept_registration(srv, req_msg, cli_id, P1, FALSE)
      ELSE IF P2 \notin DOMAIN srv.player_registry
      THEN accept_registration(srv, req_msg, cli_id, P2, TRUE)
      ELSE reject_registration(srv, req_msg, "NoSlotAvailable")

\* process_request; client_uid is the value uuid.uuid4() returns
process_request(srv, req_msg, client_uid) ==
  IF req_msg.context = ECHO THEN {handled(srv, echo_request(req_msg), <<>>)}
  ELSE IF ~check_api_version(req_msg)
  THEN {handled(srv, handle_invalid_request(req_msg, "VersionMismatch"), <<>>)}
  ELSE IF req_msg.context = PLAYER_REGISTRATION
  THEN LET r == register_new_player(srv, client_uid, req_msg)
       IN  IF r.start_game
           THEN LET s1 == [r.srv EXCEPT !.game = reset_game(@)]
                IN  {handled(s1, r.resp_msg,
                             <<format_game_state_response_message(
                                 req_msg, GAME_RESET_RESP, get_game_state(s1.game), NoOutcomes,
                                 s1.player_registry)>>)}
           ELSE {handled(r.srv, r.resp_msg, <<>>)}
  ELSE IF req_msg.context \in {GAME_RESET, MOVE_PHASE, ENGAGE_PHASE, DRIFT_PHASE}
  THEN LET cli_id == ClientIDTuple(req_msg.playerAlias, req_msg.playerUUID)
       IN  IF ~\E p \in DOMAIN srv.player_registry : srv.player_registry[p] = cli_id
           THEN {handled(srv, handle_invalid_request(req_msg, "UnregisteredIdentity"),
                         <<>>)}
           ELSE process_game_action_request(
                  srv, req_msg,
                  CHOOSE p \in DOMAIN srv.player_registry : srv.player_registry[p] = cli_id)
  ELSE {handled(srv, handle_invalid_request(req_msg, "UnknownContext"), <<>>)}

(***************************************************************************)
(* The clients: the request messages sent to the server                    *)
(***************************************************************************)
NumAliases == 3
NumUuids == 3
\* the number of pairs the clients complete after the game is done
MaxDoneSteps == 2
alias_names == <<"harry", "draco", "ron", "hermione", "luna">>
Aliases == {alias_names[i] : i \in 1..NumAliases}
\* the values uuid.uuid4() returns
Uuids == 1..NumUuids
OLD_API_VERSION == "v0000.00.00.0000.2p"
ApiVersions == {CUR_2P_API_VERSION, OLD_API_VERSION}

own_seeker(p) == seeker_token(p)
own_bludger(p) == bludger_token(p, 1)

move_sel(piece, action_type) == [pieceID |-> piece, actionType |-> action_type]
engage_sel(piece, action_type, target) ==
  [pieceID |-> piece, actionType |-> action_type, targetID |-> target]

NoopMovement(p) == <<move_sel(own_seeker(p), NOOP), move_sel(own_bludger(p), NOOP)>>
NoopEngagement(p) ==
  <<engage_sel(own_seeker(p), NOOP, own_seeker(p)),
    engage_sel(own_bludger(p), NOOP, own_bludger(p))>>

\* the movement selections a client playing p sends: Alpha leaves its tokens
\* where they are, moves its bludger, or declares its seeker and the bludger
\* of Beta; Beta leaves its tokens where they are
MovementSelections(p) ==
  IF p = P1
  THEN {NoopMovement(p),
        <<move_sel(own_seeker(p), NOOP), move_sel(own_bludger(p), PROGRADE)>>,
        <<move_sel(own_seeker(p), NOOP),
          move_sel(own_bludger(other_player(p)), RETROGRADE)>>}
  ELSE {NoopMovement(p)}

\* the engagement selections a client playing p sends: Alpha's bludger may
\* shoot at the seeker of Beta
EngagementSelections(p) ==
  IF p = P1
  THEN {NoopEngagement(p),
        <<engage_sel(own_seeker(p), NOOP, own_seeker(p)),
          engage_sel(own_bludger(p), SHOOT, own_seeker(other_player(p)))>>}
  ELSE {NoopEngagement(p)}

PhaseRequest(context, version, cli) ==
  [apiVersion |-> version, context |-> context,
   playerAlias |-> cli.alias, playerUUID |-> cli.uid]

SelectionRequest(context, version, cli, kind, selections) ==
  PhaseRequest(context, version, cli) @@ [data |-> [kind |-> kind, selections |-> selections]]

RegistrationMessage(version, alias, has_data) ==
  [apiVersion |-> version, context |-> PLAYER_REGISTRATION, playerAlias |-> alias,
   has_data |-> has_data]

EchoRequests == {[context |-> ECHO, data |-> [key0 |-> "value0"]]}

UnknownContextRequests == {[apiVersion |-> CUR_2P_API_VERSION, context |-> "unknownContext"]}

(***************************************************************************)
(* The state machine: TwoPlayerGameServer serving one request at a time    *)
(***************************************************************************)
VARIABLES
  game,                \* self.game: the KOTHGame
  player_registry,     \* self.player_registry: player id -> ClientIDTuple
  player_input_queue,  \* self.player_input_queue: player id -> request or None
  router_sent,         \* what router_io sent back to the sender of the last request
  published,           \* what the last request sent on the PUB socket
  done_steps,          \* the pairs completed since the game was done
  egraph,              \* EngagementGraph.egraph of the resolution under way
  eg_outcomes,         \* eg_outcomes of KOTHGame.resolve_engagements
  resolving            \* the phase of the resolution that comes next

server_vars == <<player_registry, player_input_queue, router_sent, published, done_steps>>

graph_vars == <<egraph, eg_outcomes, resolving>>

vars == <<game, server_vars, graph_vars>>

server == [game |-> game, player_registry |-> player_registry,
           player_input_queue |-> player_input_queue]

\* no engagement graph is being resolved
no_resolution ==
  /\ egraph = None
  /\ eg_outcomes = NoOutcomes
  /\ resolving = "done"

registered == {player_registry[p] : p \in DOMAIN player_registry}

\* uuid.uuid4(): a value no registered client holds
fresh_uuids == Uuids \ {cli.uid : cli \in registered}

registered_aliases == {cli.alias : cli \in registered}

\* the aliases of the clients that ask to register: the registered ones again,
\* and the first alias of alias_names that no client has registered
registering_aliases ==
  registered_aliases
    \cup {alias_names[i] : i \in {j \in 1..NumAliases :
                                    /\ alias_names[j] \notin registered_aliases
                                    /\ \A k \in 1..(j - 1) :
                                         alias_names[k] \in registered_aliases}}

\* clients whose (alias, uuid) the server may not have issued: the first
\* alias with the last uuid, the last alias with the first uuid
Impostors == {ClientIDTuple(alias_names[1], NumUuids), ClientIDTuple(alias_names[NumAliases], 1)}

\* the identities the requests of the clients carry
senders == registered \cup Impostors

\* the player a client plays: its registered id; P1 for any other client
playing(cli) ==
  IF cli \in registered
  THEN CHOOSE p \in DOMAIN player_registry : player_registry[p] = cli
  ELSE P1

\* router_io: process the request and send the response to its sender; a
\* handler that raised sends nothing
router_io(req_msg, client_uid) ==
  \E r \in process_request(server, req_msg, client_uid) :
    /\ game' = r.srv.game
    /\ player_registry' = r.srv.player_registry
    /\ player_input_queue' = r.srv.player_input_queue
    /\ router_sent' = IF r.resp_msg = NoResponse THEN <<>> ELSE <<r.resp_msg>>
    /\ published' = r.published
    /\ done_steps' = IF ~r.srv.game.game_done THEN 0
                     ELSE IF game.game_done /\ (r.published # <<>> \/ r.resp_msg = NoResponse)
                          THEN done_steps + 1
                          ELSE done_steps
    /\ UNCHANGED graph_vars

Init ==
  /\ game = new_game
  /\ player_registry = <<>>
  /\ player_input_queue = reset_player_input_queue
  /\ router_sent = <<>>
  /\ published = <<>>
  /\ done_steps = 0
  /\ no_resolution

EchoRequest == \E req \in EchoRequests : router_io(req, 0)

RegistrationRequest ==
  \E v \in ApiVersions, alias \in registering_aliases, has_data \in BOOLEAN,
     uid \in fresh_uuids :
    /\ v = CUR_2P_API_VERSION \/ ~has_data
    /\ router_io(RegistrationMessage(v, alias, has_data), uid)

GameResetRequest ==
  \E cli \in senders : router_io(PhaseRequest(GAME_RESET, CUR_2P_API_VERSION, cli), 0)

MovementRequest ==
  /\ done_steps < MaxDoneSteps
  /\ \E v \in ApiVersions, cli \in registered :
     \E s \in MovementSelections(playing(cli)) :
       /\ v = CUR_2P_API_VERSION \/ s = NoopMovement(playing(cli))
       /\ router_io(SelectionRequest(MOVE_PHASE, v, cli, MOVE_PHASE_REQ, s), 0)

EngagementRequest ==
  /\ done_steps < MaxDoneSteps
  /\ \E cli \in senders, k \in {ENGAGE_PHASE_REQ, MOVE_PHASE_REQ} :
     \E s \in EngagementSelections(playing(cli)) :
       /\ k = ENGAGE_PHASE_REQ \/ s = NoopEngagement(playing(cli))
       /\ router_io(SelectionRequest(ENGAGE_PHASE, CUR_2P_API_VERSION, cli, k, s), 0)

DriftRequest ==
  /\ done_steps < MaxDoneSteps
  /\ \E v \in ApiVersions, cli \in registered : router_io(PhaseRequest(DRIFT_PHASE, v, cli), 0)

UnknownContextRequest == \E req \in UnknownContextRequests : router_io(req, 0)

Next ==
  \/ EchoRequest
  \/ RegistrationRequest
  \/ GameResetRequest
  \/ MovementRequest
  \/ EngagementRequest
  \/ DriftRequest
  \/ UnknownContextRequest

Spec == Init /\ [][Next]_vars

(***************************************************************************)
(* The game engine on its own: a KOTHGame stepped by apply_verbose_actions *)
(* with one action per token, as the callers of the engine do              *)
(***************************************************************************)
\* the movement types declared for token t: every type for the bludger of
\* Alpha, fewer for the other tokens, RADIAL_OUT (there is no ring beyond
\* max_ring) for all of them
movement_options(t) ==
  {MovementTuple(m) : m \in
     CASE t = ALPHA_SEEKER -> {NOOP, PROGRADE, RADIAL_OUT}
       [] t = BETA_SEEKER -> {NOOP, RADIAL_OUT}
       [] t = ALPHA_BLUDGER -> {NOOP, PROGRADE, RETROGRADE, RADIAL_IN, RADIAL_OUT}
       [] t = BETA_BLUDGER -> {NOOP, RETROGRADE, RADIAL_IN, RADIAL_OUT}}

\* the movement action maps: one declaration for every token
MovementMaps ==
  {[t \in Tokens |->
      CASE t = ALPHA_SEEKER -> a1
        [] t = BETA_SEEKER -> a2
        [] t = ALPHA_BLUDGER -> a3
        [] t = BETA_BLUDGER -> a4] :
     a1 \in movement_options(ALPHA_SEEKER),
     a2 \in movement_options(BETA_SEEKER),
     a3 \in movement_options(ALPHA_BLUDGER),
     a4 \in movement_options(BETA_BLUDGER)}

\* a declaration that is legal only next to an opponent: a bludger shoots at
\* the seeker of the opponent, a seeker collides with it
bold_engagement(t) ==
  LET target == seeker_token(other_player(token_player(t)))
  IN  IF token_role(t) = BLUDGER THEN EngagementTuple(SHOOT, target, NoProb)
      ELSE EngagementTuple(COLLIDE, target, NoProb)

\* the engagement declarations of token t in game g: its legal actions and
\* the bold one, with the probability the game gives for each
engagement_options(g, t) ==
  {EngagementTuple(l.action_type, l.target,
                   get_engagement_probability(g, t, l.target, l.action_type)) :
     l \in g.legal_actions[t] \cup {bold_engagement(t)}}

\* the engagement action maps of game g: one declaration for every token
EngagementMaps(g) ==
  {[t \in Tokens |->
      CASE t = ALPHA_SEEKER -> a1
        [] t = BETA_SEEKER -> a2
        [] t = ALPHA_BLUDGER -> a3
        [] t = BETA_BLUDGER -> a4] :
     a1 \in engagement_options(g, ALPHA_SEEKER),
     a2 \in engagement_options(g, BETA_SEEKER),
     a3 \in engagement_options(g, ALPHA_BLUDGER),
     a4 \in engagement_options(g, BETA_BLUDGER)}

engine_step(actions) ==
  /\ ~game.game_done
  /\ \E r \in apply_verbose_actions(game, actions) : game' = r.game
  /\ UNCHANGED <<server_vars, graph_vars>>

EngineInit ==
  /\ game = new_game
  /\ player_registry = <<>>
  /\ player_input_queue = reset_player_input_queue
  /\ router_sent = <<>>
  /\ published = <<>>
  /\ done_steps = 0
  /\ no_resolution

MovementStep ==
  /\ game.turn_phase = MOVEMENT
  /\ \E actions \in MovementMaps : engine_step(actions)

EngagementStep ==
  /\ game.turn_phase = ENGAGEMENT
  /\ \E actions \in EngagementMaps(game) : engine_step(actions)

DriftStep ==
  /\ game.turn_phase = DRIFT
  /\ engine_step(None)

EngineNext ==
  \/ MovementStep
  \/ EngagementStep
  \/ DriftStep

EngineSpec == EngineInit /\ [][EngineNext]_vars

(***************************************************************************)
(* The resolution of one engagement graph: KOTHGame.resolve_engagements,   *)
(* from the graph it has built and pruned to the end of its three phases   *)
(***************************************************************************)
\* the declarations EngagementGraph.__init__ accepts for token t: noop on
\* itself, an attack on a token of the opponent, the guard of an ally
engagement_declarations(t) ==
  {EngagementTuple(NOOP, t, engage_probs(IN_SEC, NOOP))}
    \cup {EngagementTuple(k, u, engage_probs(ADJ_SEC, k)) :
            k \in {SHOOT, COLLIDE}, u \in {v \in Tokens : ~is_same_player(t, v)}}
    \cup {EngagementTuple(GUARD, u, engage_probs(ADJ_SEC, GUARD)) :
            u \in {v \in Tokens : is_same_player(t, v) /\ v # t}}

\* the declaration maps: one declaration for every token
DeclarationMaps ==
  {[t \in Tokens |->
      CASE t = ALPHA_SEEKER -> a1
        [] t = BETA_SEEKER -> a2
        [] t = ALPHA_BLUDGER -> a3
        [] t = BETA_BLUDGER -> a4] :
     a1 \in engagement_declarations(ALPHA_SEEKER),
     a2 \in engagement_declarations(BETA_SEEKER),
     a3 \in engagement_declarations(ALPHA_BLUDGER),
     a4 \in engagement_declarations(BETA_BLUDGER)}

\* the declarations with every probability 1.0, as the engagements of
\* tests/test_engagement_graph.py have them
with_prob1(engagements) ==
  [t \in DOMAIN engagements |-> [engagements[t] EXCEPT !.prob = ProbDen]]

\* the graph of a declaration map, with the probabilities of the game or with
\* every probability 1.0, pruned of the tokens without fuel
GraphInit ==
  /\ game = new_game
  /\ player_registry = <<>>
  /\ player_input_queue = reset_player_input_queue
  /\ router_sent = <<>>
  /\ published = <<>>
  /\ done_steps = 0
  /\ \E declared \in DeclarationMaps, zero_fuel_pieces \in SUBSET Tokens :
       \E engagements \in {declared, with_prob1(declared)} :
         egraph = remove_nodes_from(EngagementGraph(engagements), zero_fuel_pieces)
  /\ eg_outcomes = <<>>
  /\ resolving = "guard"

\* the outcomes of a phase are put before those of the phases before it
resolution_step_prepending(st, next) ==
  /\ egraph' = st.egraph
  /\ eg_outcomes' = st.outcomes \o eg_outcomes
  /\ resolving' = next
  /\ UNCHANGED <<game, server_vars>>

resolution_step(st, next) ==
  /\ egraph' = st.egraph
  /\ eg_outcomes' = eg_outcomes \o st.outcomes
  /\ resolving' = next
  /\ UNCHANGED <<game, server_vars>>

ResolveGuards ==
  /\ resolving = "guard"
  /\ \E st \in resolve_guard_engagements(egraph) : resolution_step(st, "shoot")

ResolveShoots ==
  /\ resolving = "shoot"
  /\ \E st \in resolve_shoot_engagements(egraph) : resolution_step(st, "collide")

\* one pass of the while loop of resolve_collide_engagements
ResolveCollide ==
  /\ resolving = "collide"
  /\ \E st \in collide_once([egraph |-> egraph, outcomes |-> <<>>]) :
       resolution_step(st, "collide")

\* the loop finds no collide edge and breaks
ResolveEnd ==
  /\ resolving = "collide"
  /\ {e \in egraph.edges : e.etype = COLLIDE} = {}
  /\ resolving' = "done"
  /\ UNCHANGED <<game, server_vars, egraph, eg_outcomes>>

GraphNext ==
  \/ ResolveGuards
  \/ ResolveShoots
  \/ ResolveCollide
  \/ ResolveEnd

GraphSpec == GraphInit /\ [][GraphNext]_vars

(***************************************************************************)
(* The construction of a game: KOTHGame.__init__ and the token catalog of  *)
(* initial_game_state, over the input arguments                            *)
(***************************************************************************)
MaxMinFuel == 2
MaxInitFuel == 3
MaxInitAmmo == 2

\* the board patterns of a player: no Bludger or one Bludger on the hill
BoardPatterns == {<<>>, << <<0, 1>> >>}

\* init_fuel >= min_fuel >= 0, init_ammo >= 0, and one player at least has
\* its Bludger
GameArguments ==
  {InputArgs(mf, fuel, init_ammo_seeker, ammo, pattern_p1, pattern_p2) :
     mf \in 0..MaxMinFuel, fuel \in 0..MaxInitFuel, ammo \in 0..MaxInitAmmo,
     pattern_p1 \in BoardPatterns, pattern_p2 \in BoardPatterns}
    \ {a \in {InputArgs(mf, fuel, init_ammo_seeker, ammo, pattern_p1, pattern_p2) :
                mf \in 0..MaxMinFuel, fuel \in 0..MaxInitFuel, ammo \in 0..MaxInitAmmo,
                pattern_p1 \in BoardPatterns, pattern_p2 \in BoardPatterns} :
          \/ a.init_fuel < a.min_fuel
          \/ a.init_board_pattern_p1 = <<>> /\ a.init_board_pattern_p2 = <<>>}

\* the arguments are chosen, the game is not constructed yet
ConstructInit ==
  /\ \E a \in GameArguments : game = [inargs |-> a]
  /\ player_registry = <<>>
  /\ player_input_queue = reset_player_input_queue
  /\ router_sent = <<>>
  /\ published = <<>>
  /\ done_steps = 0
  /\ no_resolution

\* KOTHGame.__init__, as far as the token catalog
Construct ==
  /\ "tok" \notin DOMAIN game
  /\ game' = [inargs |-> game.inargs, tok |-> initial_token_catalog(game.inargs)]
  /\ UNCHANGED <<server_vars, graph_vars>>

ConstructNext == Construct

ConstructSpec == ConstructInit /\ [][ConstructNext]_vars

(***************************************************************************)
(* The requests and the action maps the properties range over              *)
(***************************************************************************)
\* the context a client declares in a turn phase
phase_context(turn_phase) ==
  CASE turn_phase = MOVEMENT -> MOVE_PHASE
    [] turn_phase = ENGAGEMENT -> ENGAGE_PHASE
    [] turn_phase = DRIFT -> DRIFT_PHASE

\* the declarations of client cli, playing p, for the current phase
Declarations(cli, p) ==
  CASE game.turn_phase = MOVEMENT ->
         {SelectionRequest(MOVE_PHASE, CUR_2P_API_VERSION, cli, MOVE_PHASE_REQ, s) :
            s \in MovementSelections(p)}
    [] game.turn_phase = ENGAGEMENT ->
         {SelectionRequest(ENGAGE_PHASE, CUR_2P_API_VERSION, cli, ENGAGE_PHASE_REQ, s) :
            s \in EngagementSelections(p)}
    [] game.turn_phase = DRIFT -> {PhaseRequest(DRIFT_PHASE, CUR_2P_API_VERSION, cli)}

\* every token a declaration names is a token of player p
owns_tokens(req_msg, p) ==
  \/ req_msg.context = DRIFT_PHASE
  \/ \A i \in 1..Len(req_msg.data.selections) :
       token_player(req_msg.data.selections[i].pieceID) = p

\* the valid declarations of the registered player p for the current phase
ValidDeclarations(p) ==
  IF p \in DOMAIN player_registry
  THEN {d \in Declarations(player_registry[p], p) : owns_tokens(d, p)}
  ELSE {}

\* the action map the server makes of the declaration d of p and the queued one
declared_actions(p, d) ==
  synthesize_verbose_action(
    [server EXCEPT !.player_input_queue[p] = d]).actions

\* the action maps the server can make of the declarations of the two players
ActionMaps ==
  IF game.turn_phase = DRIFT THEN {None}
  ELSE {selections_dict(game, phase_context(game.turn_phase),
                        d1.data.selections \o d2.data.selections) :
          d1 \in Declarations(ClientIDTuple("", 0), P1),
          d2 \in Declarations(ClientIDTuple("", 0), P2)}

\* the part of the game state a player sees change
frame(g) ==
  [turn_count |-> g.turn_count, turn_phase |-> g.turn_phase, score |-> g.score,
   goal |-> g.goal, tok |-> g.tok]

\* a message published on the PUB socket is the snapshot of a reset
is_reset_snapshot(msg) == msg.data.kind = GAME_RESET_RESP

waiting_response(req_msg) == format_response_with_data(req_msg, [kind |-> WAITING_RESP])
advancing_response(req_msg) == format_response_with_data(req_msg, [kind |-> ADVANCING_RESP])

(***************************************************************************)
(* The barrier                                                             *)
(***************************************************************************)
\* C1: in every phase the first valid declaration is stored in its player's
\* slot and answered waitingResponse, with no engine step and no publish;
\* the valid declaration of the other player that fills the queue is answered
\* advancingResponse, steps the engine once, publishes one snapshot of the
\* new state and leaves both slots empty.
C1_BarrierAdvancesOnce ==
  \A p \in DOMAIN player_registry :
    \A d \in ValidDeclarations(p) :
      \A r \in process_request(server, d, 0) :
        /\ player_input_queue = reset_player_input_queue =>
             /\ r.srv.player_input_queue = [player_input_queue EXCEPT ![p] = d]
             /\ r.resp_msg = waiting_response(d)
             /\ r.published = <<>>
             /\ r.srv.game = game
        /\ (/\ player_input_queue[p] = NoRequest
            /\ player_input_queue[other_player(p)] \in ValidDeclarations(other_player(p))) =>
             /\ r.resp_msg = advancing_response(d)
             /\ Len(r.published) = 1
             /\ r.published[1].data.gameState = get_game_state(r.srv.game)
             /\ r.srv.game \in {x.game : x \in apply_verbose_actions(
                                                 game, declared_actions(p, d))}
             /\ r.srv.player_input_queue = reset_player_input_queue

(***************************************************************************)
(* The turn phases                                                         *)
(***************************************************************************)
\* the step apply_verbose_actions takes from g ends in terminate_game
terminates(g, actions) ==
  IF g.turn_phase = DRIFT
  THEN LET s == drift_scores(g)
       IN  \/ \E p \in player_names : s.tok[seeker_token(p)].fuel <= min_fuel
           \/ \E p \in player_names : s.score[p] >= win_score
           \/ s.turn_count >= max_turns
  ELSE \E t \in DOMAIN actions :
         ~\E l \in g.legal_actions[t] :
            /\ l.action_type = actions[t].action_type
            /\ g.turn_phase = ENGAGEMENT => l.target = actions[t].target

next_phase(turn_phase) ==
  CASE turn_phase = MOVEMENT -> ENGAGEMENT
    [] turn_phase = ENGAGEMENT -> DRIFT
    [] turn_phase = DRIFT -> MOVEMENT

\* C2: an engine step that does not terminate the game takes MOVEMENT to
\* ENGAGEMENT, ENGAGEMENT to DRIFT and DRIFT to MOVEMENT, the DRIFT step
\* adding exactly 1 to turn_count; a terminating step changes neither the
\* phase nor turn_count, and no step changes turn_count otherwise.
C2_PhaseCycle ==
  \A actions \in ActionMaps :
    \A r \in apply_verbose_actions(game, actions) :
      IF terminates(game, actions)
      THEN /\ r.game.turn_phase = game.turn_phase
           /\ r.game.turn_count = game.turn_count
      ELSE /\ r.game.turn_phase = next_phase(game.turn_phase)
           /\ r.game.turn_count =
                IF game.turn_phase = DRIFT THEN game.turn_count + 1 ELSE game.turn_count

\* a non-terminating DRIFT step has been taken and published
C2_DriftStepTaken ==
  /\ game.turn_count = 1
  /\ game.turn_phase = MOVEMENT
  /\ ~game.game_done
  /\ Len(published) = 1
  /\ published[1].data.kind = DRIFT_PHASE_RESP

\* C3: once game_done is true, every later apply_verbose_actions call and
\* every later pair of declarations completed through the server leaves
\* turn_count, turn_phase, the scores, the hills and the tokens' position,
\* fuel and ammo unchanged until the game is reset.
C3_NoTransitionAfterDone ==
  [][game.game_done =>
       /\ \A actions \in ActionMaps :
            \A r \in apply_verbose_actions(game, actions) : frame(r.game) = frame(game)
       /\ (published' = <<>> \/ ~is_reset_snapshot(published'[1])) =>
            frame(game') = frame(game)]_vars

(***************************************************************************)
(* Registration                                                            *)
(***************************************************************************)
registry_filled == DOMAIN player_registry = player_names

\* a registration request of a new client: no data field, the server's version
new_registration(alias) == RegistrationMessage(CUR_2P_API_VERSION, alias, FALSE)

is_error(resp_msg) == "error" \in DOMAIN resp_msg

\* C4: from the empty registry, registrations with distinct aliases fill the
\* Alpha slot first and the Beta slot second, each with the freshly minted
\* uuid, distinct from the other; every registration attempted after both
\* slots are filled fails with an error.
C4_AlphaThenBeta ==
  /\ P2 \in DOMAIN player_registry => P1 \in DOMAIN player_registry
  /\ registry_filled =>
       /\ player_registry[P1].alias # player_registry[P2].alias
       /\ player_registry[P1].uid # player_registry[P2].uid
  /\ \A alias \in Aliases, uid \in fresh_uuids :
       \A r \in process_request(server, new_registration(alias), uid) :
         LET slot == IF P1 \notin DOMAIN player_registry THEN P1 ELSE P2
         IN  IF registry_filled
             THEN is_error(r.resp_msg) /\ r.srv.player_registry = player_registry
             ELSE alias \notin registered_aliases =>
                    /\ r.srv.player_registry =
                         (slot :> ClientIDTuple(alias, uid)) @@ player_registry
                    /\ r.resp_msg = format_response_with_data(
                                      new_registration(alias),
                                      [kind |-> PLAYER_REGISTRATION_RESP,
                                       playerAlias |-> alias,
                                       playerID |-> slot,
                                       playerUUID |-> uid])

\* two clients are registered and a third one has been refused
C4_ThirdRefused ==
  /\ registry_filled
  /\ router_sent = <<handle_invalid_request(new_registration(alias_names[NumAliases]),
                                            "NoSlotAvailable")>>

\* C9: the registration that fills the Beta slot resets the engine to its
\* initial state and publishes exactly one gameResetResponse carrying the
\* initial game state and a playerRegistry of length 2; the registration
\* that fills the Alpha slot resets nothing and publishes nothing.
C9_BetaRegistrationStartsGame ==
  \A alias \in Aliases \ registered_aliases, uid \in fresh_uuids :
    \A r \in process_request(server, new_registration(alias), uid) :
      /\ P1 \notin DOMAIN player_registry => r.published = <<>> /\ r.srv.game = game
      /\ (P1 \in DOMAIN player_registry /\ P2 \notin DOMAIN player_registry) =>
           /\ frame(r.srv.game) = frame(new_game)
           /\ ~r.srv.game.game_done
           /\ Len(r.published) = 1
           /\ r.published[1].data.kind = GAME_RESET_RESP
           /\ r.published[1].data.gameState = get_game_state(r.srv.game)
           /\ Len(r.published[1].data.playerRegistry) = 2

\* Beta has just registered and the reset snapshot is published
C9_BetaRegistered ==
  /\ registry_filled
  /\ Len(router_sent) = 1
  /\ ~is_error(router_sent[1])
  /\ router_sent[1].context = PLAYER_REGISTRATION
  /\ router_sent[1].data.playerID = P2
  /\ Len(published) = 1
  /\ published[1].data.kind = GAME_RESET_RESP
  /\ Len(published[1].data.playerRegistry) = 2

\* C10: a registration that fails (alias already registered, both slots
\* filled, or a data field present) returns an error and leaves the
\* registry and the engine as they are and publishes nothing; the (alias,
\* uuid) of a filled slot never changes.
C10_FailedRegistrationChangesNothing ==
  [][/\ \A p \in DOMAIN player_registry :
          p \in DOMAIN player_registry' /\ player_registry'[p] = player_registry[p]
     /\ \A alias \in Aliases, has_data \in BOOLEAN, uid \in fresh_uuids :
          (alias \in registered_aliases \/ registry_filled \/ has_data) =>
            \A r \in process_request(
                       server, RegistrationMessage(CUR_2P_API_VERSION, alias, has_data),
                       uid) :
              is_error(r.resp_msg) /\ r.srv = server /\ r.published = <<>>]_vars

\* a client has asked for the alias of Alpha and has been refused
C10_AliasRefused ==
  /\ P1 \in DOMAIN player_registry
  /\ P2 \notin DOMAIN player_registry
  /\ router_sent = <<handle_invalid_request(new_registration(player_registry[P1].alias),
                                            "AliasCollision")>>
  /\ published = <<>>

(***************************************************************************)
(* Validation                                                              *)
(***************************************************************************)
\* the gameReset and phase requests of client cli, of either version
PhaseRequests(cli) ==
  UNION {{PhaseRequest(GAME_RESET, v, cli), PhaseRequest(DRIFT_PHASE, v, cli)}
           \cup {SelectionRequest(MOVE_PHASE, v, cli, MOVE_PHASE_REQ, s) :
                   s \in MovementSelections(P1) \cup MovementSelections(P2)}
           \cup {SelectionRequest(ENGAGE_PHASE, v, cli, ENGAGE_PHASE_REQ, s) :
                   s \in EngagementSelections(P1) \cup EngagementSelections(P2)} :
         v \in ApiVersions}

fails_validation(req_msg) ==
  \/ req_msg.apiVersion # CUR_2P_API_VERSION
  \/ ClientIDTuple(req_msg.playerAlias, req_msg.playerUUID) \notin registered
  \/ req_msg.context # GAME_RESET /\ req_msg.context # phase_context(game.turn_phase)

\* C5: a gameReset, movementPhase, engagementPhase or driftPhase request
\* that fails validation (version, (alias, uuid), context against the phase)
\* is answered with an error to its sender; the queue, the registry and the
\* engine are unchanged and nothing is published.
C5_InvalidRequestChangesNothing ==
  \A cli \in senders :
    \A req \in PhaseRequests(cli) :
      fails_validation(req) =>
        \A r \in process_request(server, req, 0) :
          is_error(r.resp_msg) /\ r.srv = server /\ r.published = <<>>

\* a driftPhase request has been refused outside the DRIFT phase while a
\* declaration was waiting in the queue
C5_DriftRefused ==
  /\ game.turn_phase # DRIFT
  /\ player_input_queue # reset_player_input_queue
  /\ Len(router_sent) = 1
  /\ is_error(router_sent[1])
  /\ router_sent[1].context = DRIFT_PHASE
  /\ router_sent[1].error.message = "ContextPhaseMismatch"
  /\ published = <<>>

\* the gameReset request and the declarations of the registered player p
BarrierRequests(p) ==
  {PhaseRequest(GAME_RESET, CUR_2P_API_VERSION, player_registry[p])}
    \cup Declarations(player_registry[p], p)

\* C6: when the request that fills the queue has a context different from
\* the one the other player has queued, the second arriver gets an error,
\* the queue is not altered, nothing is published and the engine is
\* untouched.
C6_MismatchLeavesQueue ==
  \A p \in DOMAIN player_registry :
    \A req \in BarrierRequests(p) :
      (/\ player_input_queue[p] = NoRequest
       /\ player_input_queue[other_player(p)] # NoRequest
       /\ player_input_queue[other_player(p)].context # req.context) =>
        \A r \in process_request(server, req, 0) :
          /\ is_error(r.resp_msg)
          /\ r.srv.player_input_queue = player_input_queue
          /\ r.published = <<>>
          /\ r.srv.game = game

\* C7: a movementPhase or engagementPhase request that declares a token its
\* sender does not own is rejected with an error and is not stored in the
\* queue.
C7_ForeignTokenRejected ==
  \A p \in DOMAIN player_registry :
    \A d \in Declarations(player_registry[p], p) :
      ~owns_tokens(d, p) =>
        \A r \in process_request(server, d, 0) :
          is_error(r.resp_msg) /\ r.srv.player_input_queue = player_input_queue

(***************************************************************************)
(* The order of arrival                                                    *)
(***************************************************************************)
\* the engine states and snapshots that can follow two requests in a row
after_both(first, second) ==
  UNION {{[game |-> r2.srv.game, published |-> r2.published,
           player_input_queue |-> r2.srv.player_input_queue] :
            r2 \in process_request(r1.srv, second, 0)} :
         r1 \in process_request(server, first, 0)}

\* C8: for the declarations dA of Alpha and dB of Beta for a phase, the
\* engine state and the published snapshot after dA then dB are those after
\* dB then dA.
C8_ArrivalOrderIrrelevant ==
  (registry_filled /\ player_input_queue = reset_player_input_queue) =>
    \A dA \in Declarations(player_registry[P1], P1),
       dB \in Declarations(player_registry[P2], P2) :
      after_both(dA, dB) = after_both(dB, dA)

\* Alpha has declared a move of the bludger of Beta, Beta has left it where
\* it is, and the step is published: the bludger has not moved
C8_BothDeclared ==
  /\ game.turn_phase = ENGAGEMENT
  /\ game.turn_count = 0
  /\ game.tok[BETA_BLUDGER] = new_game.tok[BETA_BLUDGER]
  /\ Len(published) = 1
  /\ published[1].data.kind = MOVE_PHASE_RESP
  /\ router_sent = <<advancing_response(
                       SelectionRequest(MOVE_PHASE, CUR_2P_API_VERSION,
                                        player_registry[P2], MOVE_PHASE_REQ,
                                        NoopMovement(P2)))>>

(***************************************************************************)
(* The reset of the game                                                   *)
(***************************************************************************)
\* the gameReset request of the registered player p
reset_request(p) == PhaseRequest(GAME_RESET, CUR_2P_API_VERSION, player_registry[p])

\* g is the game reset_game leaves: the initial board, turn 0, movement
is_initial_game(g) ==
  /\ g.turn_count = 0
  /\ g.turn_phase = MOVEMENT
  /\ ~g.game_done
  /\ g.tok = initial_game_state.tok
  /\ g.goal = initial_game_state.goal

\* C11: in every turn phase a gameReset request of one player alone is
\* queued and answered waitingResponse and leaves the game as it is; the
\* gameReset request that meets the queued gameReset of the other player is
\* answered advancingResponse, returns the game to its initial state,
\* publishes one gameResetResponse snapshot of it, clears the queue and
\* leaves the registry as it is.
C11_ResetThroughBarrier ==
  \A p \in DOMAIN player_registry :
    \A r \in process_request(server, reset_request(p), 0) :
      /\ player_input_queue = reset_player_input_queue =>
           /\ r.srv.player_input_queue =
                [player_input_queue EXCEPT ![p] = reset_request(p)]
           /\ r.resp_msg = waiting_response(reset_request(p))
           /\ r.published = <<>>
           /\ r.srv.game = game
           /\ r.srv.player_registry = player_registry
      /\ (/\ player_input_queue[p] = NoRequest
          /\ player_input_queue[other_player(p)] # NoRequest
          /\ player_input_queue[other_player(p)].context = GAME_RESET) =>
           /\ r.resp_msg = advancing_response(reset_request(p))
           /\ is_initial_game(r.srv.game)
           /\ Len(r.published) = 1
           /\ r.published[1].data.kind = GAME_RESET_RESP
           /\ r.published[1].data.gameState = get_game_state(r.srv.game)
           /\ r.srv.player_input_queue = reset_player_input_queue
           /\ r.srv.player_registry = player_registry

\* both players have requested gameReset in a game in which engagements had
\* been resolved, and the snapshot of the reset game has been published
C11_ResetByBoth ==
  /\ Len(router_sent) = 1
  /\ router_sent[1].context = GAME_RESET
  /\ ~is_error(router_sent[1])
  /\ router_sent[1].data.kind = ADVANCING_RESP
  /\ Len(published) = 1
  /\ is_reset_snapshot(published[1])
  /\ game.engagement_outcomes # NoOutcomes
  /\ is_initial_game(game)
  /\ player_input_queue = reset_player_input_queue

(***************************************************************************)
(* Illegal actions                                                         *)
(***************************************************************************)
\* the action maps a step of game g is given in its turn phase
EngineMaps(g) ==
  CASE g.turn_phase = MOVEMENT -> MovementMaps
    [] g.turn_phase = ENGAGEMENT -> EngagementMaps(g)
    [] g.turn_phase = DRIFT -> {None}

\* the players that declare, in the action map, an action that is not in
\* the legal-action set of the declaring token
offenders(g, actions) ==
  {token_player(t) : t \in {u \in DOMAIN actions :
     ~\E l \in g.legal_actions[u] :
        /\ l.action_type = actions[u].action_type
        /\ g.turn_phase = ENGAGEMENT => l.target = actions[u].target}}

\* C12: a MOVEMENT or ENGAGEMENT step whose action map holds an illegal
\* action sets game_done, sets the score of every player that declared an
\* illegal action to illegal_action_score, leaves the score of the other
\* player, and leaves every token's position, fuel and ammo, the hills,
\* turn_count and turn_phase as they were.
C12_IllegalActionTerminates ==
  game.turn_phase \in {MOVEMENT, ENGAGEMENT} =>
    \A actions \in EngineMaps(game) :
      offenders(game, actions) # {} =>
        \A r \in apply_verbose_actions(game, actions) :
          /\ r.game.game_done
          /\ \A p \in player_names :
               r.game.score[p] = IF p \in offenders(game, actions)
                                 THEN illegal_action_score ELSE game.score[p]
          /\ r.game.tok = game.tok
          /\ r.game.goal = game.goal
          /\ r.game.turn_count = game.turn_count
          /\ r.game.turn_phase = game.turn_phase

\* an engagement step in which Beta alone declared an illegal action has
\* ended the game
C12_BetaPunished ==
  /\ game.game_done
  /\ game.turn_phase = ENGAGEMENT
  /\ game.score[P2] = illegal_action_score
  /\ game.score[P1] # illegal_action_score

\* C13: when the pair of declarations that completes the barrier holds an
\* illegal action, in the movement or in the engagement phase, the second
\* arriver is answered advancingResponse and not an error, one snapshot with
\* gameDone true and the punitive score of the offender is published, and
\* the queue is cleared.
C13_IllegalPairAdvances ==
  \A p \in DOMAIN player_registry :
    \A d \in ValidDeclarations(p) :
      (/\ game.turn_phase \in {MOVEMENT, ENGAGEMENT}
       /\ player_input_queue[p] = NoRequest
       /\ player_input_queue[other_player(p)] \in ValidDeclarations(other_player(p))
       /\ offenders(game, declared_actions(p, d)) # {}) =>
        \A r \in process_request(server, d, 0) :
          /\ r.resp_msg = advancing_response(d)
          /\ Len(r.published) = 1
          /\ r.published[1].data.gameState.gameDone
          /\ \A o \in offenders(game, declared_actions(p, d)) :
               r.srv.game.score[o] = illegal_action_score
          /\ r.published[1].data.gameState = get_game_state(r.srv.game)
          /\ r.srv.player_input_queue = reset_player_input_queue

(***************************************************************************)
(* The resolution of engagements                                           *)
(***************************************************************************)
\* C14: when the three phases of resolve_engagements have run on the graph
\* of a declaration map, no edge is left in the graph; and the collide
\* phase ends, every pass of its loop leaving fewer collide edges than it
\* found.
C14_NoEdgeLeft ==
  /\ [](resolving = "done" /\ egraph # None => egraph.edges = {})
  /\ [][resolving = "collide" /\ resolving' = "collide" =>
          /\ {e \in egraph'.edges : e.etype = COLLIDE}
               \subseteq {e \in egraph.edges : e.etype = COLLIDE}
          /\ {e \in egraph'.edges : e.etype = COLLIDE}
               # {e \in egraph.edges : e.etype = COLLIDE}]_vars

\* a resolution has ended in which a guard let an attack through, a shot
\* missed and two collisions were evaluated
C14_AllPhasesRan ==
  /\ resolving = "done"
  /\ egraph # None
  /\ \E i, j, k, l \in 1..Len(eg_outcomes) :
       /\ i < j /\ j < k /\ k < l
       /\ eg_outcomes[i].action_type = GUARD /\ eg_outcomes[i].attacker # "None"
       /\ eg_outcomes[j].action_type = SHOOT /\ ~eg_outcomes[j].success
       /\ eg_outcomes[k].action_type = COLLIDE
       /\ eg_outcomes[l].action_type = COLLIDE

(***************************************************************************)
(* The guard                                                               *)
(***************************************************************************)
\* the outcomes of result r of the engagement step of g with actions: every
\* successful guard outcome names an attacker whose declared target is the
\* guarded token and a guardian that declared the guard; a later outcome is
\* the attack of that attacker, of the declared kind and probability, on
\* the guardian, and none is an attack of that attacker on another token;
\* and the guarded token has the fuel that the outcomes of the other tokens
\* leave it
guard_reroutes(g, actions, r) ==
  LET fa == apply_fuel_constraints(g, actions)
      fg == fuel_constrained_game(g, actions)
      out == r.game.engagement_outcomes
  IN  \A i \in 1..Len(out) :
        out[i].action_type = GUARD /\ out[i].success =>
          /\ out[i].attacker \in Tokens
          /\ fa[out[i].attacker].action_type \in {SHOOT, COLLIDE}
          /\ fa[out[i].attacker].target = out[i].target
          /\ fa[out[i].guardian] = EngagementTuple(GUARD, out[i].target,
                                                    fa[out[i].guardian].prob)
          /\ \E j \in (i + 1)..Len(out) :
               out[j] = EngagementOutcomeTuple(fa[out[i].attacker].action_type,
                                               out[i].attacker, out[i].guardian, "",
                                               fa[out[i].attacker].prob, out[j].success)
          /\ \A j \in (i + 1)..Len(out) :
               out[j].action_type \in {SHOOT, COLLIDE}
                 /\ out[j].attacker = out[i].attacker => out[j].target = out[i].guardian
          /\ r.game.tok[out[i].target].fuel =
               enact_seq(fg.tok, SelectSeq(out, LAMBDA o : o.attacker # out[i].attacker))
                 [out[i].target].fuel

\* scenario S3: A.B1 shoots B.S0 and B.B1 guards B.S0, both with probability 1
S3_engagements ==
  [t \in Tokens |->
     CASE t = ALPHA_BLUDGER -> EngagementTuple(SHOOT, BETA_SEEKER, ProbDen)
       [] t = BETA_BLUDGER -> EngagementTuple(GUARD, BETA_SEEKER, ProbDen)
       [] OTHER -> EngagementTuple(NOOP, t, ProbDen)]

\* the declarations of S3 are legal in g and the bludgers have the fuel for them
S3_applies(g) ==
  /\ g.turn_phase = ENGAGEMENT
  /\ ~g.game_done
  /\ all_valid_acts(g, S3_engagements)
  /\ \A t \in {ALPHA_BLUDGER, BETA_BLUDGER} :
       g.tok[t].fuel - action_fuel_usage(g, t, S3_engagements[t]) > min_fuel

\* C15: in every engagement step of the game a successful guard by g of s
\* against the attack of a has the outcome (a, s, g, success), the attack
\* has a later outcome of the same kind and probability with target g and
\* none with target s, and s loses no fuel.  In scenario S3 the outcomes
\* are that guard outcome and then a successful Shoot at B.B1, and in the
\* resulting state A.B1 has one ammo less, B.B1 has min_fuel and B.S0 has
\* its fuel.
C15_GuardReroutes ==
  game.turn_phase = ENGAGEMENT /\ ~game.game_done =>
    /\ \A actions \in EngagementMaps(game) :
         all_valid_acts(game, actions) =>
           \A r \in apply_verbose_actions(game, actions) :
             guard_reroutes(game, actions, r)
    /\ S3_applies(game) =>
         \A r \in apply_verbose_actions(game, S3_engagements) :
           /\ r.game.engagement_outcomes =
                << EngagementOutcomeTuple(GUARD, ALPHA_BLUDGER, BETA_SEEKER,
                                          BETA_BLUDGER, ProbDen, TRUE),
                   EngagementOutcomeTuple(SHOOT, ALPHA_BLUDGER, BETA_BLUDGER, "",
                                          ProbDen, TRUE) >>
           /\ r.game.tok[ALPHA_BLUDGER].ammo = game.tok[ALPHA_BLUDGER].ammo - 1
           /\ r.game.tok[BETA_BLUDGER].fuel = min_fuel
           /\ r.game.tok[BETA_SEEKER].fuel = game.tok[BETA_SEEKER].fuel
           /\ r.game.tok[BETA_SEEKER].fuel > min_fuel

(***************************************************************************)
(* Fuel and ammunition                                                     *)
(***************************************************************************)
\* C16: in every state of a game constructed with init_fuel >= min_fuel >= 0
\* and init_ammo >= 0, every token of the catalog, the removed satellites
\* that pad the shorter side included, has fuel >= min_fuel and ammo >= 0.
C16_FuelAndAmmoBounds ==
  "tok" \in DOMAIN game =>
    \A t \in Tokens :
      game.tok[t].fuel >= game.inargs.min_fuel /\ game.tok[t].ammo >= 0

\* the same bounds in the games played from the default token catalog
FuelAndAmmoBoundsInPlay ==
  \A t \in Tokens : game.tok[t].fuel >= min_fuel /\ game.tok[t].ammo >= 0

(***************************************************************************)
(* The fuel constraints                                                    *)
(***************************************************************************)
\* the movement of t is made; the engagement of t is an edge of the graph
\* that resolve_engagements resolves
action_applied(g, actions, r, t) ==
  LET fg == fuel_constrained_game(g, actions)
      eg == remove_nodes_from(EngagementGraph(apply_fuel_constraints(g, actions)),
                              {k \in Tokens : fg.tok[k].fuel <= min_fuel})
  IN  IF g.turn_phase = MOVEMENT
      THEN r.game.tok[t].position = move_sector(g.tok[t].position, actions[t].action_type)
      ELSE \/ actions[t].action_type = NOOP
           \/ Edge(t, actions[t].target, actions[t].action_type, actions[t].prob)
                \in eg.edges

\* the token does nothing in the step: it stays where it is, and no outcome
\* has it as attacker or guardian
action_dropped(g, r, t) ==
  IF g.turn_phase = MOVEMENT
  THEN r.game.tok[t] = g.tok[t]
  ELSE /\ r.game.tok[t].ammo = g.tok[t].ammo
       /\ \A i \in 1..Len(r.game.engagement_outcomes) :
            /\ r.game.engagement_outcomes[i].attacker # t
            /\ r.game.engagement_outcomes[i].guardian # t

\* C17: in a movement or engagement step with a legal action map, a token
\* whose fuel does not cover the cost of its declared action has the
\* action replaced by NoOp, keeps its fuel, position and ammo through the
\* fuel constraints and does nothing in the step; any other token has
\* exactly the cost deducted and its action applied.
C17_FuelConstraints ==
  game.turn_phase \in {MOVEMENT, ENGAGEMENT} /\ ~game.game_done =>
    \A actions \in EngineMaps(game) :
      all_valid_acts(game, actions) =>
        \A r \in apply_verbose_actions(game, actions) : \A t \in Tokens :
          IF game.tok[t].fuel - action_fuel_usage(game, t, actions[t]) < min_fuel
          THEN /\ apply_fuel_constraints(game, actions)[t].action_type = NOOP
               /\ fuel_constrained_game(game, actions).tok[t] = game.tok[t]
               /\ action_dropped(game, r, t)
          ELSE /\ fuel_constrained_game(game, actions).tok[t].fuel =
                    game.tok[t].fuel - action_fuel_usage(game, t, actions[t])
               /\ game.turn_phase = MOVEMENT =>
                    r.game.tok[t].fuel =
                      game.tok[t].fuel - action_fuel_usage(game, t, actions[t])
               /\ action_applied(game, actions, r, t)

(***************************************************************************)
(* The drift step                                                          *)
(***************************************************************************)
\* C18: in every DRIFT step both hills move one sector prograde, every
\* token moves one sector prograde in its own ring, and every token's fuel
\* is reduced by fuel_usage[drift], not below min_fuel.
C18_DriftMotion ==
  game.turn_phase = DRIFT /\ ~game.game_done =>
    \A r \in apply_verbose_actions(game, None) :
      /\ \A p \in player_names : r.game.goal[p] = get_prograde_sector(game.goal[p])
      /\ \A t \in Tokens :
           /\ r.game.tok[t].position = get_prograde_sector(game.tok[t].position)
           /\ sector_num2ring(r.game.tok[t].position)
                = sector_num2ring(game.tok[t].position)
           /\ r.game.tok[t].fuel =
                IF game.tok[t].fuel - fuel_usage(DRIFT) < min_fuel
                THEN min_fuel ELSE game.tok[t].fuel - fuel_usage(DRIFT)

\* C19: when a terminal condition (a Seeker with fuel <= min_fuel, a score
\* at or above win_score, turn_count >= max_turns) holds on the state a
\* DRIFT step results in, that state has game_done; no DRIFT step results
\* in a MOVEMENT phase with an inactive Seeker or with turn_count >=
\* max_turns.
C19_TerminalAfterDrift ==
  game.turn_phase = DRIFT /\ ~game.game_done =>
    \A r \in apply_verbose_actions(game, None) :
      /\ is_terminal_game_state(r.game) => r.game.game_done
      /\ r.game.turn_phase = MOVEMENT =>
           /\ r.game.tok[ALPHA_SEEKER].fuel > min_fuel
           /\ r.game.tok[BETA_SEEKER].fuel > min_fuel
           /\ r.game.turn_count < max_turns

(***************************************************************************)
(* The adjacency graph and the legal-action table                          *)
(***************************************************************************)
\* the stored adjacency graph and legal-action table of g are those of its
\* phase and token catalog
tables_follow_state(g) ==
  /\ g.token_adjacency =
       {e \in Tokens \X Tokens :
          /\ e[1] # e[2]
          /\ \/ g.tok[e[2]].position = g.tok[e[1]].position
             \/ g.tok[e[2]].position \in get_all_adjacent_sectors(g.tok[e[1]].position)}
  /\ g.legal_actions =
       get_legal_verbose_actions(g.turn_phase, g.tok,
                                 get_token_adjacency_graph(g.tok))

\* C20: in every state of the game, and so after every step, after every
\* step that terminates the game and after every reset, the stored
\* adjacency graph has the edge u -> v exactly when u # v and v is in the
\* sector of u or in a sector adjacent to it, and the stored legal-action
\* table is the one the generator gives for the phase and the tokens.
C20_TablesFollowState ==
  /\ tables_follow_state(game)
  /\ tables_follow_state(reset_game(game))
  /\ ~game.game_done =>
       \A actions \in EngineMaps(game) : \A r \in apply_verbose_actions(game, actions) :
         tables_follow_state(r.game)

\* the drift phase after a collision that moved the attacker into the
\* sector of its target: the tables are those of the new positions
C20_AfterCollision ==
  /\ game.turn_phase = DRIFT
  /\ ~game.game_done
  /\ \E i \in 1..Len(game.engagement_outcomes) :
       LET o == game.engagement_outcomes[i]
       IN  /\ o.action_type = COLLIDE
           /\ ~o.success
           /\ game.tok[o.attacker].position = game.tok[o.target].position
           /\ <<o.attacker, o.target>> \in game.token_adjacency
           /\ <<o.attacker, o.target>> \notin new_game.token_adjacency
  /\ \A t \in Tokens : game.legal_actions[t] = {}

(***************************************************************************)
(* The legal actions of the Seekers                                        *)
(***************************************************************************)
\* C21: in the ENGAGEMENT phase the legal-action set of a Seeker contains
\* no Shoot and no Collide, whatever its fuel, its ammo and its neighbours.
C21_SeekersNeverAttack ==
  game.turn_phase = ENGAGEMENT =>
    \A t \in {ALPHA_SEEKER, BETA_SEEKER} :
      \A l \in get_legal_verbose_actions(ENGAGEMENT, game.tok,
                                         game.token_adjacency)[t] :
        l.action_type \notin {SHOOT, COLLIDE}

(***************************************************************************)
(* The enactment of guard outcomes                                         *)
(***************************************************************************)
\* C22: in every engagement step a guardian none of whose Guard outcomes has
\* success true, the trivial guard against no attack included, is in the
\* sector it was in; a guardian with a successful Guard outcome is in the
\* sector of the token it guards.
C22_GuardianMovesOnSuccess ==
  game.turn_phase = ENGAGEMENT /\ ~game.game_done =>
    \A actions \in EngagementMaps(game) :
      all_valid_acts(game, actions) =>
        \A r \in apply_verbose_actions(game, actions) :
          LET out == r.game.engagement_outcomes
              guards(t) == {i \in 1..Len(out) :
                              out[i].action_type = GUARD /\ out[i].guardian = t}
          IN  \A t \in Tokens :
                guards(t) # {} =>
                  IF \E i \in guards(t) : out[i].success
                  THEN \E i \in guards(t) :
                         r.game.tok[t].position = game.tok[out[i].target].position
                  ELSE r.game.tok[t].position = game.tok[t].position

(***************************************************************************)
(* Inactive tokens                                                         *)
(***************************************************************************)
\* C23: whatever min_fuel the game is constructed with, a token with fuel <=
\* min_fuel has the legal-action set {NoOp} in MOVEMENT and in ENGAGEMENT, is
\* the target of no Shoot or Collide in the legal-action set of another
\* token, and adds nothing to the fuel points of its player.
C23_InactiveTokens ==
  "tok" \in DOMAIN game =>
    LET adj == get_token_adjacency_graph(game.tok)
        moves == get_legal_verbose_actions(MOVEMENT, game.tok, adj)
        engagements == get_legal_verbose_actions(ENGAGEMENT, game.tok, adj)
    IN  \A t \in Tokens :
          game.tok[t].fuel <= game.inargs.min_fuel =>
            /\ moves[t] = {MovementTuple(NOOP)}
            /\ engagements[t] = {EngagementTuple(NOOP, t, NoProb)}
            /\ \A u \in Tokens \ {t} : \A l \in engagements[u] :
                 ~(l.action_type \in {SHOOT, COLLIDE} /\ l.target = t)
            /\ get_fuel_points_of(game.tok, token_player(t))
                 = get_fuel_points_of([game.tok EXCEPT ![t].fuel = 0], token_player(t))

(***************************************************************************)
(* The rewards                                                             *)
(***************************************************************************)
\* C24: every step that does not terminate the game returns the reward 0 to
\* both players; a step that terminates it returns score_alpha - score_beta
\* to alpha and score_beta - score_alpha to beta, of the scores after the
\* step; the two rewards sum to zero.
C24_ZeroSumRewards ==
  ~game.game_done =>
    \A actions \in EngineMaps(game) : \A r \in apply_verbose_actions(game, actions) :
      /\ r.rewards[P1] + r.rewards[P2] = 0
      /\ IF r.game.game_done
         THEN /\ r.rewards[P1] = r.game.score[P1] - r.game.score[P2]
              /\ r.rewards[P2] = r.game.score[P2] - r.game.score[P1]
         ELSE r.rewards[P1] = 0 /\ r.rewards[P2] = 0

\* a drift step that terminates the game with different scores, in a game
\* in which a step has returned zero rewards before
C24_DriftEndsUneven ==
  /\ game.turn_phase = DRIFT
  /\ ~game.game_done
  /\ game.turn_count > 0
  /\ \E r \in apply_verbose_actions(game, None) :
       r.game.game_done /\ r.rewards[P1] > 0 /\ r.game.score # game.score

(***************************************************************************)
(* The scores of the drift step                                            *)
(***************************************************************************)
\* the game is as reset_game left it, but for the phase: both Seekers on
\* their hills, every token with its initial fuel, the initial scores
freshly_reset(g) ==
  /\ g.tok = new_game.tok
  /\ g.goal = new_game.goal
  /\ g.score = new_game.score
  /\ g.fuel_score = new_game.fuel_score
  /\ g.turn_count = 0
  /\ ~g.game_done

\* C25: the DRIFT step of the freshly reset game, both Seekers on their own
\* hills, increases the score of each player by in_goal_points plus the fuel
\* points of the player, the sum over its tokens of fuel * factor[role].
C25_FirstDriftScore ==
  game.turn_phase = DRIFT /\ freshly_reset(game) =>
    \A r \in apply_verbose_actions(game, None) : \A p \in player_names :
      r.game.score[p] - game.score[p] = in_goal_points + get_fuel_points(game, p)

(***************************************************************************)
(* The engine under given random draws.  The draws of np.random are a     *)
(* stream d read by position: np.random.shuffle and np.random.rand()      *)
(* each consume the next draw.  A stream is a short sequence read         *)
(* cyclically; a draw u stands for the value u / NumDraws of rand() and   *)
(* for the rotation by u of the list given to shuffle.                    *)
(***************************************************************************)
MaxDraw == 1
NumDraws == MaxDraw + 1
DrawStreams == [1..2 -> 0..MaxDraw]

draw_at(d, i) == d[(i % Len(d)) + 1]

\* np.random.shuffle(l) under the draw u
shuffle_with(l, u) == [i \in 1..Len(l) |-> l[((i - 1 + u) % Len(l)) + 1]]

\* np.random.rand() < prob under the draw u
rand_with(u, prob) == u * ProbDen < prob * NumDraws

\* the edges iterated as if the graph kept them in no order
edges_data_unordered(edges) == Perms(edges)

\* [... for src, tar, dat in egraph.edges(data=True) if ...]: networkx
\* iterates the edges by source node in the order the nodes were added, the
\* order of the keys of the engagements; a node has at most one out-edge
edges_data(edges) ==
  LET srcs == SelectSeq(token_order, LAMBDA t : \E e \in edges : e.src = t)
  IN  {[i \in 1..Len(srcs) |-> CHOOSE e \in edges : e.src = srcs[i]]}

\* egraph.remove_nodes_from(node_removal_set): the set is iterated in an
\* order the draws do not give
RECURSIVE remove_nodes_in_order(_, _)
remove_nodes_in_order(eg, order) ==
  IF Len(order) = 0 THEN eg
  ELSE remove_nodes_in_order(remove_nodes_from(eg, {Head(order)}), Tail(order))

remove_nodes_from_set(eg, ns) == {remove_nodes_in_order(eg, order) : order \in Perms(ns)}

\* the resolve_* methods under the stream d; st is [egraph, outcomes, drawn],
\* drawn the number of draws consumed
RECURSIVE guard_attacks_with(_, _, _, _, _)
guard_attacks_with(st, d, ge, in_att_edges, guard_count) ==
  IF Len(in_att_edges) = 0 THEN st
  ELSE LET iae == Head(in_att_edges)
           prob == decayed_guard_prob(ge.prob, guard_count)
           success == rand_with(draw_at(d, st.drawn), prob)
       IN  guard_attacks_with(
             [egraph |-> IF success
                         THEN add_edge(remove_edge(st.egraph, iae.src, iae.tar),
                                       Edge(iae.src, ge.src, iae.etype, iae.prob))
                         ELSE st.egraph,
              outcomes |-> Append(st.outcomes,
                                  EngagementOutcomeTuple(GUARD, iae.src, ge.tar, ge.src,
                                                         prob, success)),
              drawn |-> st.drawn + 1],
             d, ge, Tail(in_att_edges), guard_count + 1)

guard_one_with(st, d, ge) ==
  LET eg == remove_edge(st.egraph, ge.src, ge.tar)
      in_att_edges == {e \in eg.edges : e.tar = ge.tar /\ e.etype \in {SHOOT, COLLIDE}}
  IN  IF in_att_edges = {}
      THEN {[egraph |-> eg,
             outcomes |-> Append(st.outcomes,
                                 EngagementOutcomeTuple(GUARD, "None", ge.tar, ge.src,
                                                        ge.prob, FALSE)),
             drawn |-> st.drawn]}
      ELSE {guard_attacks_with([egraph |-> eg, outcomes |-> st.outcomes,
                                drawn |-> st.drawn + 1],
                               d, ge, shuffle_with(l, draw_at(d, st.drawn)), 0) :
              l \in edges_data(in_att_edges)}

RECURSIVE guard_loop_with(_, _, _)
guard_loop_with(st, d, guard_edges) ==
  IF Len(guard_edges) = 0 THEN {st}
  ELSE UNION {guard_loop_with(s, d, Tail(guard_edges)) :
                s \in guard_one_with(st, d, Head(guard_edges))}

resolve_guard_engagements_with(st, d) ==
  UNION {guard_loop_with([st EXCEPT !.drawn = @ + 1], d,
                         shuffle_with(l, draw_at(d, st.drawn))) :
           l \in edges_data({e \in st.egraph.edges : e.etype = GUARD})}

RECURSIVE shoot_loop_with(_, _, _)
shoot_loop_with(st, d, shoot_edges) ==
  IF Len(shoot_edges) = 0 THEN st
  ELSE LET e == Head(shoot_edges)
           success == rand_with(draw_at(d, st.drawn), e.prob)
       IN  shoot_loop_with(
             [egraph |-> remove_edge(st.egraph, e.src, e.tar),
              outcomes |-> Append(st.outcomes,
                                  EngagementOutcomeTuple(SHOOT, e.src, e.tar, "",
                                                         e.prob, success)),
              drawn |-> st.drawn + 1,
              node_removal_set |-> IF success THEN st.node_removal_set \cup {e.tar}
                                   ELSE st.node_removal_set],
             d, Tail(shoot_edges))

resolve_shoot_engagements_with(st, d) ==
  UNION {LET s == shoot_loop_with([egraph |-> st.egraph, outcomes |-> st.outcomes,
                                   drawn |-> st.drawn + 1, node_removal_set |-> {}],
                                  d, shuffle_with(l, draw_at(d, st.drawn)))
         IN  {[egraph |-> eg, outcomes |-> s.outcomes, drawn |-> s.drawn] :
                eg \in remove_nodes_from_set(s.egraph, s.node_removal_set)} :
           l \in edges_data({e \in st.egraph.edges : e.etype = SHOOT})}

RECURSIVE resolve_collide_engagements_with(_, _)
resolve_collide_engagements_with(st, d) ==
  LET collide_edges == {e \in st.egraph.edges : e.etype = COLLIDE}
      after(e, success) ==
        [egraph |-> IF success
                    THEN remove_nodes_from(remove_edge(st.egraph, e.src, e.tar),
                                           {e.src, e.tar})
                    ELSE remove_edge(st.egraph, e.src, e.tar),
         outcomes |-> Append(st.outcomes,
                             EngagementOutcomeTuple(COLLIDE, e.src, e.tar, "",
                                                    e.prob, success)),
         drawn |-> st.drawn + 2]
  IN  IF collide_edges = {} THEN {st}
      ELSE UNION {LET e == shuffle_with(l, draw_at(d, st.drawn))[1]
                  IN  resolve_collide_engagements_with(
                        after(e, rand_with(draw_at(d, st.drawn + 1), e.prob)), d) :
                    l \in edges_data(collide_edges)}

\* KOTHGame.resolve_engagements under the stream d
resolve_engagements_with(g, engagements, d) ==
  LET zero_fuel_pieces == {k \in Tokens : g.tok[k].fuel <= min_fuel}
      eg == remove_nodes_from(EngagementGraph(engagements), zero_fuel_pieces)
  IN  {cs.outcomes :
         cs \in UNION {resolve_collide_engagements_with(ss, d) :
                  ss \in UNION {resolve_shoot_engagements_with(gs, d) :
                           gs \in resolve_guard_engagements_with(
                                    [egraph |-> eg, outcomes |-> <<>>, drawn |-> 0], d)}}}

\* apply_verbose_actions under the stream d: only the engagement phase draws
apply_verbose_actions_with(g, actions, d) ==
  IF g.turn_phase = ENGAGEMENT /\ all_valid_acts(g, actions)
  THEN LET fg == fuel_constrained_game(g, actions)
       IN  {step_result(
              update_turn_phase(
                enact_engagements([fg EXCEPT !.engagement_outcomes = o]), DRIFT),
              zero_rewards) :
              o \in resolve_engagements_with(fg, apply_fuel_constraints(g, actions), d)}
  ELSE apply_verbose_actions(g, actions)

\* the outcome sequences of an accepted engagement map under some stream
drawn_outcomes(g, actions) ==
  UNION {resolve_engagements_with(fuel_constrained_game(g, actions),
                                  apply_fuel_constraints(g, actions), d) :
           d \in DrawStreams}

\* the engagement step of a run under draws; a rejected map draws nothing
EngagementStepWith ==
  /\ game.turn_phase = ENGAGEMENT
  /\ ~game.game_done
  /\ \E actions \in EngagementMaps(game) :
       IF all_valid_acts(game, actions)
       THEN \E o \in drawn_outcomes(game, actions) :
              game' = update_turn_phase(
                        enact_engagements(
                          [fuel_constrained_game(game, actions)
                             EXCEPT !.engagement_outcomes = o]), DRIFT)
       ELSE \E r \in apply_verbose_actions(game, actions) : game' = r.game
  /\ UNCHANGED <<server_vars, graph_vars>>

\* the runs of the engine under draws; movement and drift draw nothing
DrawnNext == MovementStep \/ EngagementStepWith \/ DriftStep

DrawnSpec == EngineInit /\ [][DrawnNext]_vars

MaxRings == 4
MaxGridMoves == 2

\* OrbitGrid(n_rings = n) for n in 1..MaxRings with a sector of it; start is
\* the sector chosen, moves the operations applied since
GridInit ==
  /\ \E n \in 1..MaxRings : \E s \in 0..(OrbitGrid(n).n_sectors - 1) :
       game = [og |-> OrbitGrid(n), start |-> s, sec_num |-> s, moves |-> <<>>]
  /\ player_registry = <<>>
  /\ player_input_queue = reset_player_input_queue
  /\ router_sent = <<>>
  /\ published = <<>>
  /\ done_steps = 0
  /\ no_resolution

\* the sector an operation of the grid returns becomes the current one;
\* there is nothing to follow when it returns None
grid_move(move, sec_num) ==
  /\ Len(game.moves) < MaxGridMoves
  /\ sec_num # NoSector
  /\ game' = [game EXCEPT !.sec_num = sec_num, !.moves = Append(@, move)]
  /\ UNCHANGED <<server_vars, graph_vars>>

GridPrograde == grid_move(PROGRADE, get_prograde_sector(game.sec_num))

GridRetrograde == grid_move(RETROGRADE, get_retrograde_sector(game.sec_num))

GridRadialIn == grid_move(RADIAL_IN, get_radial_in_sector(game.sec_num))

GridRadialOut ==
  grid_move(RADIAL_OUT, grid_get_radial_out_sector(game.og, game.sec_num))

GridNext == GridPrograde \/ GridRetrograde \/ GridRadialIn \/ GridRadialOut

GridSpec == GridInit /\ [][GridNext]_vars

\* the other sector of the ring with the same radial-in sector
sibling(sec_num) ==
  LET c == sector_num2coord(sec_num)
  IN  sector_coord2num(c[1], IF c[2] % 2 = 0 THEN c[2] + 1 ELSE c[2] - 1)

\* C27: for every sector s not on the outermost ring,
\* radial_in(radial_out(s)) = s; for every sector s not on ring 0,
\* radial_out(radial_in(s)) is s or the sibling of s; radial_out returns no
\* sector on the outermost ring and radial_in returns no sector on ring 0.
C27_RadialRoundTrip ==
  LET og == game.og
      s == game.sec_num
      ring == sector_num2ring(s)
      out_sec == grid_get_radial_out_sector(og, s)
      in_sec == get_radial_in_sector(s)
  IN  /\ ring < og.n_rings =>
           out_sec # NoSector /\ get_radial_in_sector(out_sec) = s
      /\ ring > 0 =>
           /\ in_sec # NoSector
           /\ grid_get_radial_out_sector(og, in_sec) \in {s, sibling(s)}
      /\ ring = og.n_rings => out_sec = NoSector
      /\ ring = 0 => in_sec = NoSector

\* a sector between ring 0 and the outermost ring was left inwards and the
\* way back out has led to its sibling
C27_BackAtSibling ==
  /\ game.moves = <<RADIAL_IN, RADIAL_OUT>>
  /\ game.sec_num = sibling(game.start)
  /\ sector_num2ring(game.start) > 1
  /\ sector_num2ring(game.start) < game.og.n_rings

\* C28: in a 4-ring grid with min_ring = 1, the grid whose playable sectors
\* are the 30 sectors 1..30, prograde(1) = 2, retrograde(1) = 2,
\* radial_out(1) = 3 and all_adjacent_sectors(7) = {8, 14, 3}.
C28_GridSanity ==
  game.og.n_sectors - 1 = 30 =>
    /\ {s \in 0..(game.og.n_sectors - 1) : sector_num2ring(s) >= min_ring} = 1..30
    /\ game.sec_num = 1 =>
         /\ get_prograde_sector(1) = 2
         /\ get_retrograde_sector(1) = 2
         /\ grid_get_radial_out_sector(game.og, 1) = 3
    /\ game.sec_num = 7 => grid_get_all_adjacent_sectors(game.og, 7) = {8, 14, 3}

(***************************************************************************)
(* The order of the phases and the shoot phase                             *)
(***************************************************************************)
\* the place of an outcome's phase in resolve_engagements
phase_rank(action_type) ==
  CASE action_type = GUARD -> 1
    [] action_type = SHOOT -> 2
    [] action_type = COLLIDE -> 3

\* C29: in every outcome sequence produced by one engagement resolution, all
\* Guard outcomes precede all Shoot outcomes, and all Shoot outcomes precede
\* all Collide outcomes.
C29_GuardShootCollide ==
  \A i, j \in 1..Len(eg_outcomes) :
    i < j => phase_rank(eg_outcomes[i].action_type)
               <= phase_rank(eg_outcomes[j].action_type)

\* a resolution has ended with outcomes of the three kinds: a guard that
\* took an attack over, a shot that hit, a collision
C29_ThreeKinds ==
  /\ resolving = "done"
  /\ \E i, j, k \in 1..Len(eg_outcomes) :
       /\ eg_outcomes[i].action_type = GUARD /\ eg_outcomes[i].success
       /\ eg_outcomes[j].action_type = SHOOT /\ eg_outcomes[j].success
       /\ eg_outcomes[k].action_type = COLLIDE

\* the outcomes the step has added to eg_outcomes
new_outcomes == SubSeq(eg_outcomes', Len(eg_outcomes) + 1, Len(eg_outcomes'))

\* C30: shoot edges are resolved simultaneously: every shoot edge present
\* when the shoot phase begins yields exactly one Shoot outcome, even when
\* its attacker is itself the target of a successful shot of the phase, no
\* shoot edge remains afterwards, and the tokens the phase removes are
\* exactly the targets of the successful shots.
C30_SimultaneousShots ==
  [][resolving = "shoot" /\ resolving' = "collide" =>
       LET shoot_edges == {e \in egraph.edges : e.etype = SHOOT}
       IN  /\ Len(new_outcomes) = Cardinality(shoot_edges)
           /\ \A i \in 1..Len(new_outcomes) : new_outcomes[i].action_type = SHOOT
           /\ \A e \in shoot_edges :
                Cardinality({i \in 1..Len(new_outcomes) :
                               /\ new_outcomes[i].attacker = e.src
                               /\ new_outcomes[i].target = e.tar}) = 1
           /\ {e \in egraph'.edges : e.etype = SHOOT} = {}
           /\ egraph.nodes \ egraph'.nodes =
                {new_outcomes[i].target :
                   i \in {k \in 1..Len(new_outcomes) : new_outcomes[k].success}}]_vars

\* a mutual shoot-kill: two tokens have shot each other, both shots hit and
\* both tokens are gone
C30_MutualShootKill ==
  /\ resolving = "collide"
  /\ \E i, j \in 1..Len(eg_outcomes) :
       /\ eg_outcomes[i].action_type = SHOOT /\ eg_outcomes[i].success
       /\ eg_outcomes[j].action_type = SHOOT /\ eg_outcomes[j].success
       /\ eg_outcomes[i].attacker = eg_outcomes[j].target
       /\ eg_outcomes[j].attacker = eg_outcomes[i].target
       /\ eg_outcomes[i].attacker \notin egraph.nodes
       /\ eg_outcomes[j].attacker \notin egraph.nodes

(***************************************************************************)
(* The collide phase                                                       *)
(***************************************************************************)
\* the tokens the outcomes before the i-th have removed from the graph: the
\* targets of the shots that hit and both ends of the collisions that hit
removed_before(outcomes, i) ==
  UNION {IF outcomes[k].action_type = SHOOT /\ outcomes[k].success
         THEN {outcomes[k].target}
         ELSE IF outcomes[k].action_type = COLLIDE /\ outcomes[k].success
              THEN {outcomes[k].attacker, outcomes[k].target}
              ELSE {} : k \in 1..(i - 1)}

\* C31: a successful Collide removes both endpoints from the engagement
\* graph, so within one resolution no token is attacker or target of a
\* Collide outcome after it was the target of a successful Shoot or an
\* endpoint of an earlier successful Collide; and when every probability is
\* 1 the collide phase removes exactly twice as many nodes as it has Collide
\* outcomes.
C31_CollideRemovesBoth ==
  /\ \A i \in 1..Len(eg_outcomes) :
       eg_outcomes[i].action_type = COLLIDE =>
         {eg_outcomes[i].attacker, eg_outcomes[i].target}
           \cap removed_before(eg_outcomes, i) = {}
  /\ (\A e \in egraph.edges : e.prob = ProbDen) =>
       \A st \in resolve_collide_engagements(egraph) :
         Cardinality(egraph.nodes \ st.egraph.nodes) = 2 * Len(st.outcomes)

\* a resolution with every probability 1 has ended: a shot has hit, a
\* collision has hit after it and has taken both its tokens from the graph
C31_TwoGoneAfterShot ==
  /\ resolving = "done"
  /\ \E i, j \in 1..Len(eg_outcomes) :
       /\ i < j
       /\ eg_outcomes[i].action_type = SHOOT /\ eg_outcomes[i].success
       /\ eg_outcomes[i].prob = ProbDen
       /\ eg_outcomes[j].action_type = COLLIDE /\ eg_outcomes[j].success
       /\ eg_outcomes[j].prob = ProbDen
       /\ {eg_outcomes[j].attacker, eg_outcomes[j].target} \cap egraph.nodes = {}

(***************************************************************************)
(* The enactment of the outcomes                                           *)
(***************************************************************************)
\* the step is an engagement step that has resolved the declarations
engagement_resolved ==
  /\ game.turn_phase = ENGAGEMENT
  /\ ~game.game_done
  /\ game'.turn_phase = DRIFT
  /\ ~game'.game_done

\* the tokens that appear in the outcomes as attacker, target or guardian
tokens_in(outcomes) ==
  UNION {{outcomes[k].attacker, outcomes[k].target, outcomes[k].guardian} :
           k \in 1..Len(outcomes)}

\* C32: enacting the outcome sequence in order, each Shoot outcome subtracts
\* exactly 1 from the ammo of the attacker, hit or miss, and a hit sets the
\* fuel of the target to min_fuel; each Collide outcome sets the position of
\* the attacker to the position the target has then, hit or miss, and a hit
\* sets the fuel of both tokens to min_fuel; a token that appears in no
\* outcome keeps its position and its ammo through the ENGAGEMENT step.
C32_EnactInOrder ==
  [][engagement_resolved =>
       LET outcomes == game'.engagement_outcomes
           tok_after(k) == enact_seq(game.tok, SubSeq(outcomes, 1, k))
       IN  /\ \A k \in 1..Len(outcomes) :
                LET egout == outcomes[k]
                    before == tok_after(k - 1)
                    after == tok_after(k)
                IN  /\ egout.action_type = SHOOT =>
                         /\ after[egout.attacker].ammo = before[egout.attacker].ammo - 1
                         /\ egout.success =>
                              /\ after[egout.target].fuel = min_fuel
                              /\ game'.tok[egout.target].fuel = min_fuel
                    /\ egout.action_type = COLLIDE =>
                         /\ after[egout.attacker].position = before[egout.target].position
                         /\ egout.success =>
                              /\ after[egout.attacker].fuel = min_fuel
                              /\ after[egout.target].fuel = min_fuel
                              /\ game'.tok[egout.attacker].fuel = min_fuel
                              /\ game'.tok[egout.target].fuel = min_fuel
           /\ \A t \in Tokens :
                /\ game'.tok[t].position = tok_after(Len(outcomes))[t].position
                /\ game'.tok[t].ammo = tok_after(Len(outcomes))[t].ammo
                /\ game'.tok[t].ammo =
                     game.tok[t].ammo
                       - Cardinality({k \in 1..Len(outcomes) :
                                        /\ outcomes[k].action_type = SHOOT
                                        /\ outcomes[k].attacker = t})
                /\ t \notin tokens_in(outcomes) =>
                     /\ game'.tok[t].position = game.tok[t].position
                     /\ game'.tok[t].ammo = game.tok[t].ammo]_vars

\* an engagement step has been enacted in which a shot has missed and has
\* cost its ammo, a collision has missed and has moved its attacker, and a
\* token has stayed out of every outcome
C32_MissesEnacted ==
  /\ game.turn_phase = DRIFT
  /\ game.engagement_outcomes # NoOutcomes
  /\ \E i, j \in 1..Len(game.engagement_outcomes) :
       LET shot == game.engagement_outcomes[i]
           collision == game.engagement_outcomes[j]
       IN  /\ shot.action_type = SHOOT /\ ~shot.success
           /\ game.tok[shot.attacker].ammo = init_ammo_bludger - 1
           /\ collision.action_type = COLLIDE /\ ~collision.success
           /\ game.tok[collision.attacker].position = game.tok[collision.target].position
  /\ Tokens \ tokens_in(game.engagement_outcomes) # {}

(***************************************************************************)
(* The legal engagements of a Bludger                                      *)
(***************************************************************************)
\* the token is active: it has more fuel than min_fuel
is_active(g, t) == g.tok[t].fuel > min_fuel

\* token u is in the sector of token t or in a sector adjacent to it
is_near(g, t, u) ==
  /\ u # t
  /\ g.tok[u].position
       \in {g.tok[t].position} \cup get_all_adjacent_sectors(g.tok[t].position)

resolved_in_step(g, actions) ==
  IF g.turn_phase = ENGAGEMENT /\ all_valid_acts(g, actions)
  THEN resolve_engagements(fuel_constrained_game(g, actions),
                           apply_fuel_constraints(g, actions))
  ELSE {}

\* C34: the resolutionSequence published with an engagementPhase advancement
\* is the ordered outcome sequence produced by the engagement resolution of
\* that same step; outcomes produced by the resolution of an earlier step,
\* in an earlier turn or before a reset, are never published again.
C34_FreshResolution ==
  \A p \in DOMAIN player_registry :
    \A d \in ValidDeclarations(p) :
      (/\ game.turn_phase = ENGAGEMENT
       /\ player_input_queue[p] = NoRequest
       /\ player_input_queue[other_player(p)] \in ValidDeclarations(other_player(p))) =>
        \A r \in process_request(server, d, 0) :
          r.published # <<>> =>
            /\ r.published[1].data.kind = ENGAGE_PHASE_RESP
            /\ \/ r.published[1].data.resolutionSequence
                    \in resolved_in_step(game, declared_actions(p, d))
               \/ /\ resolved_in_step(game, declared_actions(p, d)) = {}
                  /\ r.published[1].data.resolutionSequence = <<>>

(***************************************************************************)
(* The pruning of the engagement graph                                     *)
(***************************************************************************)
\* the Shoot outcomes, in the outcome sequence, of the shots of token t
shots_of(outcomes, t) ==
  {i \in 1..Len(outcomes) : outcomes[i].action_type = SHOOT /\ outcomes[i].attacker = t}

\* C35: the pruning that precedes the resolution removes only tokens that
\* were inactive when the ENGAGEMENT step began: a token that was active at
\* the start of the step and whose Shoot declaration was not coerced to NoOp
\* takes part in the resolution, which produces exactly one Shoot outcome for
\* it, and the shot costs it one ammo.
C35_ActiveShooterTakesPart ==
  (game.turn_phase = ENGAGEMENT /\ ~game.game_done) =>
    \A actions \in {a \in EngagementMaps(game) : all_valid_acts(game, a)} :
      \A t \in {u \in Tokens : /\ is_active(game, u)
                               /\ actions[u].action_type = SHOOT
                               /\ has_sufficient_fuel(game, u, actions[u])} :
        \A r \in apply_verbose_actions(game, actions) :
          /\ Cardinality(shots_of(r.game.engagement_outcomes, t)) = 1
          /\ r.game.tok[t].ammo = game.tok[t].ammo - 1

(***************************************************************************)
(* The barrier and the registry                                            *)
(***************************************************************************)
\* the client a request names
sender_of(req_msg) == ClientIDTuple(req_msg.playerAlias, req_msg.playerUUID)

\* the slot of player p holds a request of the client registered as p
holds_own_declaration(queue, p) ==
  /\ queue[p] # NoRequest
  /\ p \in DOMAIN player_registry
  /\ sender_of(queue[p]) = player_registry[p]

\* the registration of Beta starts the game
game_started ==
  /\ P2 \notin DOMAIN player_registry
  /\ P2 \in DOMAIN player_registry'
  /\ game' = reset_game(game)

goal_score(g, p) == g.score[p] - g.fuel_score[p]

\* the step from game to game' is a MOVEMENT or ENGAGEMENT step that
\* terminate_game did not end
legal_action_step ==
  /\ game.turn_phase \in {MOVEMENT, ENGAGEMENT}
  /\ ~game.game_done
  /\ ~game'.game_done

\* C37: while no illegal action has been played since the reset, the score
\* of each player minus its fuel_score is the sum of the goal points the
\* DRIFT steps since the reset awarded it, and its fuel_score is the fuel
\* points computed at the most recent DRIFT step, or at the reset when there
\* was none: the reset game has no goal points, every DRIFT step adds the
\* goal points of the state it is taken in and replaces the fuel score, and
\* a MOVEMENT or ENGAGEMENT step with legal actions changes neither score.
C37_ScoreTracks ==
  [][/\ (game.turn_count = 0 /\ ~game.game_done) =>
          \A p \in player_names :
            /\ goal_score(game, p) = 0
            /\ game.fuel_score[p] = get_fuel_points(new_game, p)
     /\ (game.turn_phase = DRIFT /\ ~game.game_done) =>
          \A p \in player_names :
            /\ goal_score(game', p) = goal_score(game, p) + get_points(game, p)
            /\ game'.fuel_score[p] = get_fuel_points(game, p)
     /\ legal_action_step =>
          /\ game'.score = game.score
          /\ game'.fuel_score = game.fuel_score]_vars

\* two DRIFT steps have been taken: Alpha was paid for its hill in the first
\* and for a sector next to it in the second, and its fuel score has changed
C37_TwoAwards ==
  /\ game.game_done
  /\ game.turn_phase = DRIFT
  /\ game.turn_count = 1
  /\ goal_score(game, P1) = in_goal_points + adj_goal_points
  /\ game.fuel_score[P1] # new_game.fuel_score[P1]

(***************************************************************************)
(* The playable board                                                      *)
(***************************************************************************)
\* the sector is a sector of the grid in one of the rings min_ring..max_ring
on_playable_board(sec_num) ==
  /\ sec_num \in 0..(n_sectors - 1)
  /\ min_ring <= sector_num2ring(sec_num)
  /\ sector_num2ring(sec_num) <= max_ring

\* C38: in every reachable state the sector of every token lies in a ring r
\* with min_ring <= r <= max_ring and both hills lie in the geo ring: no
\* sequence of legal movements, fuel coercions, collisions, guard moves and
\* drifts takes a token off the playable board.
C38_TokensOnBoard ==
  /\ \A t \in Tokens : on_playable_board(game.tok[t].position)
  /\ \A p \in player_names :
       /\ game.goal[p] \in 0..(n_sectors - 1)
       /\ sector_num2ring(game.goal[p]) = geo_ring

\* after a drift, a bludger has gone down to the innermost playable ring and
\* a guardian has been moved to the sector of the token it guarded
C38_InnerRingAndGuardMove ==
  /\ game.turn_count = 1
  /\ game.turn_phase = DRIFT
  /\ ~game.game_done
  /\ \E t \in Tokens : sector_num2ring(game.tok[t].position) = min_ring
  /\ \E i \in 1..Len(game.engagement_outcomes) :
       LET o == game.engagement_outcomes[i]
       IN  /\ o.action_type = GUARD
           /\ o.guardian \in Tokens
           /\ game.tok[o.guardian].position = game.tok[o.target].position

(***************************************************************************)
(* Inactive tokens stay inactive                                           *)
(***************************************************************************)
\* C39: a token that is inactive (fuel <= min_fuel) at the start of a step
\* is inactive after the step, hence after every later step of the game,
\* and is neither attacker, target nor guardian in any engagement outcome
\* the step produces.
C39_InactiveForGood ==
  [][\A t \in Tokens :
       ~is_active(game, t) =>
         /\ ~is_active(game', t)
         /\ engagement_resolved => t \notin tokens_in(game'.engagement_outcomes)]_vars

\* the engagement phase of the second turn begins with a seeker that the
\* steps before left without fuel, and its bludger may guard it against an
\* active opponent next to it
C39_HuskMayBeGuarded ==
  /\ game.turn_count = 1
  /\ game.turn_phase = ENGAGEMENT
  /\ ~game.game_done
  /\ \E p \in player_names :
       /\ ~is_active(game, seeker_token(p))
       /\ is_active(game, bludger_token(p, 1))
       /\ \E l \in game.legal_actions[bludger_token(p, 1)] :
            l.action_type = GUARD /\ l.target = seeker_token(p)

(***************************************************************************)
(* Legal play to the end of the game: examples/core_random_game.py steps   *)
(* the game with legal actions for as long as it is not done               *)
(***************************************************************************)
\* the action types the players of the legal games declare: the seekers stay
\* idle, the bludgers close in, shoot, collide and guard
played_types(t) ==
  CASE t = ALPHA_BLUDGER -> {NOOP, PROGRADE, SHOOT, COLLIDE}
    [] t = BETA_BLUDGER -> {NOOP, RETROGRADE, SHOOT, GUARD}
    [] OTHER -> {NOOP}

\* get_random_valid_actions: the action maps of the menus that are legal and
\* of the types played
valid_actions(g) ==
  {a \in EngineMaps(g) : /\ all_valid_acts(g, a)
                         /\ \A t \in Tokens : a[t].action_type \in played_types(t)}

LegalMovementStep ==
  /\ game.turn_phase = MOVEMENT
  /\ \E actions \in valid_actions(game) : engine_step(actions)

LegalEngagementStep ==
  /\ game.turn_phase = ENGAGEMENT
  /\ \E actions \in valid_actions(game) : engine_step(actions)

LegalDriftStep ==
  /\ game.turn_phase = DRIFT
  /\ engine_step(None)

LegalNext ==
  \/ LegalMovementStep
  \/ LegalEngagementStep
  \/ LegalDriftStep

\* the loop goes on while the game is not done: a step that stays possible
\* is taken
LegalPlaySpec == EngineInit /\ [][LegalNext]_vars /\ WF_vars(LegalNext)

\* C40: under legal play in which both players keep declaring, every game
\* eventually reaches game_done; turn_count grows by exactly one on each
\* DRIFT step that does not terminate and never decreases, and the game is
\* terminated no later than the DRIFT step taken with turn_count = max_turns.
C40_GameEnds ==
  /\ <>game.game_done
  /\ [][/\ game'.turn_count >= game.turn_count
        /\ (game.turn_phase = DRIFT /\ ~game'.game_done) =>
             game'.turn_count = game.turn_count + 1
        /\ (game.turn_phase = DRIFT /\ game.turn_count = max_turns) => game'.game_done
        /\ game.turn_count <= max_turns]_vars

\* the game has been ended by the DRIFT step taken with turn_count =
\* max_turns, the latest there can be, with no score at win_score and both
\* seekers active
C40_EndedByTurnLimit ==
  /\ game.game_done
  /\ game.turn_phase = DRIFT
  /\ game.turn_count = max_turns
  /\ \A p \in player_names :
       /\ game.score[p] < win_score
       /\ is_active(game, seeker_token(p))

=============================================================================
